---- MODULE Spec2Model ----
(***************************************************************************)
(* cursor2api: the bridge between a chat request and the upstream binary   *)
(* streaming protocol (app/cursor_client.py, app/config.py).               *)
(*                                                                         *)
(* A byte is an integer 0..255, a byte string a sequence of bytes, a text  *)
(* a sequence of Unicode code points, a credential a sequence of           *)
(* one-character strings.  Indices named as in the Python source are       *)
(* 0-based; At and Slice translate them.                                   *)
(***************************************************************************)
EXTENDS Integers, Sequences, FiniteSets

VARIABLES
    pc,             \* where the exchange is
    mode,           \* "stream": chat_completion_stream consumed directly; "blocking": chat_completion
    cursor_token,   \* settings.cursor_token, the raw credential
    token,          \* CursorClient.token, the cleaned credential
    posts,          \* streaming POSTs issued so far
    status,         \* response.status_code (0: no response yet)
    error_body,     \* the body of a non-200 response
    pending,        \* bytes the upstream will still send
    shape,          \* how many leading bytes of the response are a decoy before its frame
    received,       \* bytes delivered so far, all chunks concatenated
    nchunks,        \* chunks delivered so far (capped at MaxChunkCount)
    buffer,         \* the local variable buffer of chat_completion_stream
    base,           \* offset in received of the first byte of buffer
    fragment,       \* the text being yielded
    yielded,        \* every text yielded so far, in order
    log,            \* per yielded text: where its frame starts in received, and base at the yield
    full_response,  \* the accumulator of chat_completion
    result,         \* what chat_completion returned
    error,          \* the exception that ended the exchange
    value,          \* the value handed to an encoder of ProtobufEncoder
    encoded,        \* the bytes the encoder produced
    encoder,        \* which encoder of ProtobufEncoder is called
    field_num,      \* the field number handed to it
    messages,       \* the chat messages of the request
    model,          \* the model name of the request
    system_prompt_inject,   \* settings.system_prompt_inject
    uuid4s,         \* the values uuid4() returns to this exchange, in the order of the calls
    cursor_messages,\* what _convert_messages returned
    proto_data,     \* request.encode()
    envelope,       \* the body of the POST
    conn,           \* the transport connection: "none", "open", "closed"
    peer,           \* a second exchange running on the same cursor_client
    events,         \* the events generate() of stream_chat_completion has yielded, in order
    generate        \* where generate() is ("none": the exchange has another consumer)

vars == <<pc, mode, cursor_token, token, posts, status, error_body, pending,
          shape, received, nchunks, buffer, base, fragment, yielded, log,
          full_response, result, error, value, encoded, encoder, field_num,
          messages, model, system_prompt_inject, uuid4s, cursor_messages,
          proto_data, envelope, conn, peer, events, generate>>

\* ------------------------------------------------------------------ bounds

\* Segments in one upstream response.
MaxSegs == 2
\* Chunks counted in nchunks.
MaxChunkCount == 3
\* Zero bytes in a decoy's run.
MaxZeroRun == 5
\* Bytes that follow the zero run in a decoy.
MaxJunk == 3
\* Pieces a raw credential is made of.
MaxTokenParts == 5
\* Every integer up to this one is encoded.
MaxDenseVarint == 400
\* The longest value handed to a field encoder, in characters or bytes.
MaxFieldLen == 300
\* Chat messages in one request.
MaxMessages == 3

\* ------------------------------------------------------------ byte strings

Min(a, b) == IF a < b THEN a ELSE b

\* buffer[i], i 0-based
At(s, i) == s[i + 1]

\* buffer[a:b], 0-based, b exclusive, clipped to the string as Python clips
Slice(s, a, b) ==
    LET hi == IF b > Len(s) THEN Len(s) ELSE b
    IN  IF a >= hi THEN <<>> ELSE SubSeq(s, a + 1, hi)

\* buffer[n:]
DropFirst(s, n) == Slice(s, n, Len(s))

\* unit * k
Rep(unit, k) ==
    IF k = 0 THEN <<>>
    ELSE [i \in 1..(k * Len(unit)) |-> unit[((i - 1) % Len(unit)) + 1]]

delimiter == <<0, 0, 0, 0>>

\* buffer.find(sub): the lowest 0-based index where sub occurs, -1 when none
Find(s, sub) ==
    LET hits == {i \in 0..(Len(s) - Len(sub)) : Slice(s, i, i + Len(sub)) = sub}
    IN  IF hits = {} THEN -1
        ELSE CHOOSE i \in hits : \A j \in hits : i <= j

\* ------------------------------------------------------------------ UTF-8

IsCont(b) == b >= 128 /\ b <= 191

\* The length of the sequence a lead byte starts, 0 for a byte that starts none.
Utf8Width(b) ==
    IF b <= 127 THEN 1
    ELSE IF b >= 194 /\ b <= 223 THEN 2
    ELSE IF b >= 224 /\ b <= 239 THEN 3
    ELSE IF b >= 240 /\ b <= 244 THEN 4
    ELSE 0

\* The second byte's range depends on the lead (no overlong form, no surrogate,
\* nothing above U+10FFFF).
SecondOk(b1, b2) ==
    IF b1 = 224 THEN b2 >= 160 /\ b2 <= 191
    ELSE IF b1 = 237 THEN b2 >= 128 /\ b2 <= 159
    ELSE IF b1 = 240 THEN b2 >= 144 /\ b2 <= 191
    ELSE IF b1 = 244 THEN b2 >= 128 /\ b2 <= 143
    ELSE IsCont(b2)

\* The code point of the w-byte sequence at index i (1-based) of s.
Utf8Point(s, i, w) ==
    IF w = 1 THEN s[i]
    ELSE IF w = 2 THEN (s[i] - 192) * 64 + (s[i + 1] - 128)
    ELSE IF w = 3 THEN (s[i] - 224) * 4096 + (s[i + 1] - 128) * 64 + (s[i + 2] - 128)
    ELSE (s[i] - 240) * 262144 + (s[i + 1] - 128) * 4096 + (s[i + 2] - 128) * 64
             + (s[i + 3] - 128)

\* A well-formed w-byte sequence starts at index i (1-based) of s.
Utf8SeqOk(s, i, w) ==
    /\ w > 0
    /\ Len(s) >= i + w - 1
    /\ w >= 2 => SecondOk(s[i], s[i + 1])
    /\ \A j \in 2..(w - 1) : IsCont(s[i + j])

RECURSIVE Utf8Take(_, _, _)
\* At most k characters decoded from index i (1-based) of s: the text, the index
\* after it, and ok FALSE at a byte sequence that is not UTF-8.
Utf8Take(s, i, k) ==
    IF k = 0 \/ i > Len(s) THEN [ok |-> TRUE, text |-> <<>>, next |-> i]
    ELSE LET w == Utf8Width(s[i])
         IN  IF ~Utf8SeqOk(s, i, w) THEN [ok |-> FALSE, text |-> <<>>, next |-> i]
             ELSE LET r == Utf8Take(s, i + w, k - 1)
                  IN  IF r.ok
                      THEN [ok |-> TRUE, text |-> <<Utf8Point(s, i, w)>> \o r.text,
                            next |-> r.next]
                      ELSE r

RECURSIVE Utf8From(_, _)
\* The bytes of s from index i (1-based) decoded left to right, sixteen
\* characters at a time.
Utf8From(s, i) ==
    IF i > Len(s) THEN [ok |-> TRUE, text |-> <<>>]
    ELSE LET h == Utf8Take(s, i, 16)
         IN  IF ~h.ok THEN [ok |-> FALSE, text |-> <<>>]
             ELSE LET r == Utf8From(s, h.next)
                  IN  IF r.ok THEN [ok |-> TRUE, text |-> h.text \o r.text]
                      ELSE r

\* bytes.decode('utf-8'), strict: ok is FALSE where Python raises UnicodeDecodeError
Utf8Decode(s) == Utf8From(s, 1)

\* ---------------------------------------------------------------- decoder

\* What _parse_grpc_chunk hands back: the tuple (text, consumed), or an exception
\* that leaves the function (raised).
Parsed(text, consumed) == [text |-> text, consumed |-> consumed, raised |-> FALSE]

\* _parse_grpc_chunk treating a payload that has not fully arrived as a false
\* marker (consumed = idx + 1 where the code returns 0).
parse_skipping_incomplete(buf) ==
    LET idx == Find(buf, delimiter)
    IN  IF idx = -1 \/ Len(buf) < idx + 7 THEN Parsed(<<>>, 0)
        ELSE IF At(buf, idx + 5) # 10 \/ At(buf, idx + 4) - 2 # At(buf, idx + 6)
        THEN Parsed(<<>>, idx + 1)
        ELSE LET chunk_end == idx + 7 + At(buf, idx + 6)
                 d == Utf8Decode(Slice(buf, idx + 7, chunk_end))
             IN  IF Len(buf) < chunk_end THEN Parsed(<<>>, idx + 1)
                 ELSE Parsed(IF d.ok THEN d.text ELSE <<>>, chunk_end)

\* _parse_grpc_chunk returning chunk_start for chunk_end: the payload stays in
\* the buffer after its text was handed out.
parse_leaving_payload(buf) ==
    LET idx == Find(buf, delimiter)
    IN  IF idx = -1 \/ Len(buf) < idx + 7 THEN Parsed(<<>>, 0)
        ELSE IF At(buf, idx + 5) # 10 \/ At(buf, idx + 4) - 2 # At(buf, idx + 6)
        THEN Parsed(<<>>, idx + 1)
        ELSE LET chunk_end == idx + 7 + At(buf, idx + 6)
                 d == Utf8Decode(Slice(buf, idx + 7, chunk_end))
             IN  IF Len(buf) < chunk_end THEN Parsed(<<>>, 0)
                 ELSE Parsed(IF d.ok THEN d.text ELSE <<>>, idx + 7)

\* _parse_grpc_chunk without its except clause: UnicodeDecodeError leaves it.
parse_without_except(buf) ==
    LET idx == Find(buf, delimiter)
    IN  IF idx = -1 \/ Len(buf) < idx + 7 THEN Parsed(<<>>, 0)
        ELSE IF At(buf, idx + 5) # 10 \/ At(buf, idx + 4) - 2 # At(buf, idx + 6)
        THEN Parsed(<<>>, idx + 1)
        ELSE LET chunk_end == idx + 7 + At(buf, idx + 6)
                 d == Utf8Decode(Slice(buf, idx + 7, chunk_end))
             IN  IF Len(buf) < chunk_end THEN Parsed(<<>>, 0)
                 ELSE IF d.ok THEN Parsed(d.text, chunk_end)
                 ELSE [text |-> <<>>, consumed |-> 0, raised |-> TRUE]

\* _parse_grpc_chunk stepping over the whole marker (idx + 4) on a failed check.
parse_skipping_marker(buf) ==
    LET idx == Find(buf, delimiter)
    IN  IF idx = -1 \/ Len(buf) < idx + 7 THEN Parsed(<<>>, 0)
        ELSE IF At(buf, idx + 5) # 10 \/ At(buf, idx + 4) - 2 # At(buf, idx + 6)
        THEN Parsed(<<>>, idx + 4)
        ELSE LET chunk_end == idx + 7 + At(buf, idx + 6)
                 d == Utf8Decode(Slice(buf, idx + 7, chunk_end))
             IN  IF Len(buf) < chunk_end THEN Parsed(<<>>, 0)
                 ELSE Parsed(IF d.ok THEN d.text ELSE <<>>, chunk_end)

\* _parse_grpc_chunk taking the payload length from byte1, the outer length.
parse_length_from_byte1(buf) ==
    LET idx == Find(buf, delimiter)
    IN  IF idx = -1 \/ Len(buf) < idx + 7 THEN Parsed(<<>>, 0)
        ELSE IF At(buf, idx + 5) # 10 \/ At(buf, idx + 4) - 2 # At(buf, idx + 6)
        THEN Parsed(<<>>, idx + 1)
        ELSE LET chunk_end == idx + 7 + At(buf, idx + 4)
                 d == Utf8Decode(Slice(buf, idx + 7, chunk_end))
             IN  IF Len(buf) < chunk_end THEN Parsed(<<>>, 0)
                 ELSE Parsed(IF d.ok THEN d.text ELSE <<>>, chunk_end)

\* _parse_grpc_chunk discarding a buffer in which it finds no marker.
parse_discarding_unmarked(buf) ==
    LET idx == Find(buf, delimiter)
    IN  IF idx = -1 THEN Parsed(<<>>, Len(buf))
        ELSE IF Len(buf) < idx + 7 THEN Parsed(<<>>, 0)
        ELSE IF At(buf, idx + 5) # 10 \/ At(buf, idx + 4) - 2 # At(buf, idx + 6)
        THEN Parsed(<<>>, idx + 1)
        ELSE LET chunk_end == idx + 7 + At(buf, idx + 6)
                 d == Utf8Decode(Slice(buf, idx + 7, chunk_end))
             IN  IF Len(buf) < chunk_end THEN Parsed(<<>>, 0)
                 ELSE Parsed(IF d.ok THEN d.text ELSE <<>>, chunk_end)

\* _parse_grpc_chunk stepping over the marker and the header that failed the
\* check (idx + 7).
parse_dropping_false_header(buf) ==
    LET idx == Find(buf, delimiter)
    IN  IF idx = -1 \/ Len(buf) < idx + 7 THEN Parsed(<<>>, 0)
        ELSE IF At(buf, idx + 5) # 10 \/ At(buf, idx + 4) - 2 # At(buf, idx + 6)
        THEN Parsed(<<>>, idx + 7)
        ELSE LET chunk_end == idx + 7 + At(buf, idx + 6)
                 d == Utf8Decode(Slice(buf, idx + 7, chunk_end))
             IN  IF Len(buf) < chunk_end THEN Parsed(<<>>, 0)
                 ELSE Parsed(IF d.ok THEN d.text ELSE <<>>, chunk_end)

\* _parse_grpc_chunk handing out the part of a payload that has arrived.
parse_emitting_partial(buf) ==
    LET idx == Find(buf, delimiter)
    IN  IF idx = -1 \/ Len(buf) < idx + 7 THEN Parsed(<<>>, 0)
        ELSE IF At(buf, idx + 5) # 10 \/ At(buf, idx + 4) - 2 # At(buf, idx + 6)
        THEN Parsed(<<>>, idx + 1)
        ELSE LET chunk_end == Min(idx + 7 + At(buf, idx + 6), Len(buf))
                 d == Utf8Decode(Slice(buf, idx + 7, chunk_end))
             IN  Parsed(IF d.ok THEN d.text ELSE <<>>, chunk_end)


\* _parse_grpc_chunk halting on a header that failed the check (consumed = 0
\* where the code returns idx + 1).
parse_halting_on_false_header(buf) ==
    LET idx == Find(buf, delimiter)
    IN  IF idx = -1 \/ Len(buf) < idx + 7 THEN Parsed(<<>>, 0)
        ELSE IF At(buf, idx + 5) # 10 \/ At(buf, idx + 4) - 2 # At(buf, idx + 6)
        THEN Parsed(<<>>, 0)
        ELSE LET chunk_end == idx + 7 + At(buf, idx + 6)
                 d == Utf8Decode(Slice(buf, idx + 7, chunk_end))
             IN  IF Len(buf) < chunk_end THEN Parsed(<<>>, 0)
                 ELSE Parsed(IF d.ok THEN d.text ELSE <<>>, chunk_end)


\* _parse_grpc_chunk comparing byte1 - 2 with byte3 in one byte's arithmetic, so
\* that the headers 00 0A FE and 01 0A FF pass.
parse_wrapping_header(buf) ==
    LET idx == Find(buf, delimiter)
    IN  IF idx = -1 \/ Len(buf) < idx + 7 THEN Parsed(<<>>, 0)
        ELSE IF At(buf, idx + 5) # 10 \/ (At(buf, idx + 4) - 2) % 256 # At(buf, idx + 6)
        THEN Parsed(<<>>, idx + 1)
        ELSE LET chunk_end == idx + 7 + At(buf, idx + 6)
                 d == Utf8Decode(Slice(buf, idx + 7, chunk_end))
             IN  IF Len(buf) < chunk_end THEN Parsed(<<>>, 0)
                 ELSE Parsed(IF d.ok THEN d.text ELSE <<>>, chunk_end)

\* CursorClient._parse_grpc_chunk
parse_grpc_chunk(buf) ==
    LET idx == Find(buf, delimiter)
    IN  IF idx = -1 \/ Len(buf) < idx + 7 THEN Parsed(<<>>, 0)
        ELSE LET byte1 == At(buf, idx + 4)
                 byte2 == At(buf, idx + 5)
                 byte3 == At(buf, idx + 6)
             IN  IF byte2 # 10 THEN Parsed(<<>>, idx + 1)
                 ELSE IF byte1 - 2 # byte3 THEN Parsed(<<>>, idx + 1)
                 ELSE LET length == byte3
                          chunk_start == idx + 7
                          chunk_end == chunk_start + length
                      IN  IF Len(buf) < chunk_end THEN Parsed(<<>>, 0)
                          ELSE LET d == Utf8Decode(Slice(buf, chunk_start, chunk_end))
                               IN  IF d.ok THEN Parsed(d.text, chunk_end)
                                   ELSE Parsed(<<>>, chunk_end)

RECURSIVE Drain(_)
\* The inner while loop of chat_completion_stream run to its break on one buffer:
\* the texts it yields and the buffer it leaves.
Drain(buf) ==
    LET p == parse_grpc_chunk(buf)
    IN  IF p.consumed = 0 THEN [texts |-> <<>>, rest |-> buf]
        ELSE LET r == Drain(DropFirst(buf, p.consumed))
             IN  [texts |-> (IF p.text # <<>> THEN <<p.text>> ELSE <<>>) \o r.texts,
                  rest |-> r.rest]

\* ------------------------------------------------------------- credential

Whitespace == {" ", "\t", "\n"}

RECURSIVE LStrip(_)
LStrip(s) == IF s # <<>> /\ Head(s) \in Whitespace THEN LStrip(Tail(s)) ELSE s

RECURSIVE RStrip(_)
RStrip(s) ==
    IF s # <<>> /\ s[Len(s)] \in Whitespace THEN RStrip(SubSeq(s, 1, Len(s) - 1)) ELSE s

\* str.strip()
Strip(s) == RStrip(LStrip(s))

\* sub in s
Contains(s, sub) == Find(s, sub) # -1

RECURSIVE Split(_, _)
\* str.split(sep): the parts between the occurrences of sep, found left to right,
\* each search resuming after the previous occurrence
Split(s, sep) ==
    LET i == Find(s, sep)
    IN  IF i = -1 THEN <<s>>
        ELSE <<Slice(s, 0, i)>> \o Split(DropFirst(s, i + Len(sep)), sep)

\* parts[-1]
Last(parts) == parts[Len(parts)]

EncodedSep == <<"%", "3", "A", "%", "3", "A">>
LiteralSep == <<":", ":">>

\* Settings.get_clean_token
get_clean_token(raw) ==
    LET t0 == Strip(raw)
    IN  IF t0 = <<>> THEN <<>>
        ELSE LET t1 == IF Contains(t0, EncodedSep) THEN Last(Split(t0, EncodedSep)) ELSE t0
                 t2 == IF Contains(t1, LiteralSep) THEN Last(Split(t1, LiteralSep)) ELSE t1
             IN  Strip(t2)

\* ----------------------------------------------------------------- varint

RECURSIVE encode_varint_byte_wide(_)
\* encode_varint looping while value > 0xff.
encode_varint_byte_wide(v) ==
    IF v > 255 THEN <<(v % 128) + 128>> \o encode_varint_byte_wide(v \div 128)
    ELSE <<v>>

RECURSIVE encode_varint(_)
\* ProtobufEncoder.encode_varint: one loop iteration per byte; value & 0x7f | 0x80
\* is value % 128 + 128, value >>= 7 is value \div 128
encode_varint(v) ==
    IF v > 127 THEN <<(v % 128) + 128>> \o encode_varint(v \div 128)
    ELSE <<v>>

\* ----------------------------------------------------------------- fields

\* The UTF-8 bytes of one code point (a text holds no surrogate: request
\* validation rejects a string that is not Unicode).
EncodePoint(c) ==
    IF c < 128 THEN <<c>>
    ELSE IF c < 2048 THEN <<192 + (c \div 64), 128 + (c % 64)>>
    ELSE IF c < 65536
    THEN <<224 + (c \div 4096), 128 + ((c \div 64) % 64), 128 + (c % 64)>>
    ELSE <<240 + (c \div 262144), 128 + ((c \div 4096) % 64),
           128 + ((c \div 64) % 64), 128 + (c % 64)>>

RECURSIVE Utf8Encode(_)
\* str.encode('utf-8'), the text halved until single code points are left
Utf8Encode(text) ==
    IF text = <<>> THEN <<>>
    ELSE IF Len(text) = 1 THEN EncodePoint(text[1])
    ELSE LET half == Len(text) \div 2
         IN  Utf8Encode(SubSeq(text, 1, half)) \o Utf8Encode(SubSeq(text, half + 1, Len(text)))

\* (field_num << 3) | wire_type, the wire type filling the three bits the shift left clear
Tag(fnum, wire_type) == fnum * 8 + wire_type

\* encode_string with len(value), the number of characters, as the length.
encode_string_char_count(fnum, val) ==
    IF val = <<>> THEN <<>>
    ELSE encode_varint(Tag(fnum, 2)) \o encode_varint(Len(val)) \o Utf8Encode(val)

\* ProtobufEncoder.encode_string
encode_string(fnum, val) ==
    IF val = <<>> THEN <<>>
    ELSE LET enc == Utf8Encode(val)
             tag == Tag(fnum, 2)
         IN  encode_varint(tag) \o encode_varint(Len(enc)) \o enc

\* ProtobufEncoder.encode_bytes
encode_bytes(fnum, val) ==
    IF val = <<>> THEN <<>>
    ELSE LET tag == Tag(fnum, 2)
         IN  encode_varint(tag) \o encode_varint(Len(val)) \o val

\* ProtobufEncoder.encode_uint64
encode_uint64(fnum, val) ==
    IF val = 0 THEN <<>>
    ELSE LET tag == Tag(fnum, 0)
         IN  encode_varint(tag) \o encode_varint(val)

\* ProtobufEncoder.encode_message
encode_message(fnum, val) ==
    IF val = <<>> THEN <<>>
    ELSE LET tag == Tag(fnum, 2)
         IN  encode_varint(tag) \o encode_varint(Len(val)) \o val

\* ---------------------------------------------------------------- request

\* Python's "\n"
Newline == <<10>>

RECURSIVE Join(_, _)
\* sep.join(texts)
Join(sep, texts) ==
    IF texts = <<>> THEN <<>>
    ELSE IF Len(texts) = 1 THEN texts[1]
    ELSE texts[1] \o sep \o Join(sep, Tail(texts))

\* Message.get_text_content: a str content as it is; of a list content the text
\* of the parts typed "text", joined by newlines.
get_text_content(msg) ==
    IF msg.content.kind = "str" THEN msg.content.text
    ELSE Join(Newline,
              [i \in 1..Len(SelectSeq(msg.content.parts, LAMBDA p : p.type = "text"))
                   |-> SelectSeq(msg.content.parts, LAMBDA p : p.type = "text")[i].text])

\* role = 1; if msg.role in ("assistant", "system"): role = 2
RoleCode(role) == IF role \in {"assistant", "system"} THEN 2 ELSE 1

\* _convert_messages leaving out a message whose text is empty.
convert_messages_skipping_empty(msgs, msg_uuid, inject) ==
    LET kept == SelectSeq(msgs, LAMBDA m : get_text_content(m) # <<>>)
    IN  [i \in 1..Len(kept) |->
            [content |-> get_text_content(kept[i]), role |-> RoleCode(kept[i].role),
             uuid |-> msg_uuid]]

\* CursorClient._convert_messages, msg_uuid being the uuid4 it draws and inject
\* settings.system_prompt_inject
convert_messages(msgs, msg_uuid, inject) ==
    [i \in 1..Len(msgs) |->
        LET msg == msgs[i]
            role == RoleCode(msg.role)
            text == get_text_content(msg)
            content == IF msg.role = "system" /\ inject # <<>>
                       THEN text \o Newline \o inject
                       ELSE text
        IN  [content |-> content, role |-> role, uuid |-> msg_uuid]]

\* CursorMessage.encode
CursorMessage_encode(m) ==
    encode_string(1, m.content) \o encode_uint64(2, m.role) \o encode_string(13, m.uuid)

\* CursorModel.encode
CursorModel_encode(model_name) == encode_string(1, model_name)

RECURSIVE EncodeMessages(_)
\* for msg in self.messages: result += encode_message(2, msg.encode())
EncodeMessages(msgs) ==
    IF msgs = <<>> THEN <<>>
    ELSE encode_message(2, CursorMessage_encode(Head(msgs))) \o EncodeMessages(Tail(msgs))

\* CursorRequest.encode
CursorRequest_encode(req) ==
    EncodeMessages(req.messages)
        \o encode_string(5, req.paths)
        \o encode_message(7, CursorModel_encode(req.model))
        \o encode_string(9, req.trace_id)
        \o encode_string(15, req.conversation_id)
        \o encode_uint64(16, 1)

\* struct.pack(">I", n): four bytes, the most significant first
BigEndian32(n) ==
    <<(n \div 16777216) % 256, (n \div 65536) % 256, (n \div 256) % 256, n % 256>>

\* _build_grpc_envelope packing the length with "<BI", the least significant byte first.
build_envelope_little_endian(data) ==
    <<0>> \o <<Len(data) % 256, (Len(data) \div 256) % 256, (Len(data) \div 65536) % 256,
               (Len(data) \div 16777216) % 256>> \o data

\* CursorClient._build_grpc_envelope
build_grpc_envelope(data) == <<0>> \o BigEndian32(Len(data)) \o data

\* settings.cursor_working_dir, "/c:/Users/Default"
cursor_working_dir ==
    <<47, 99, 58, 47, 85, 115, 101, 114, 115, 47, 68, 101, 102, 97, 117, 108, 116>>

\* chat_completion_stream from the token test to the POST: the messages converted,
\* the request encoded and wrapped.  ids holds the three uuid4 drawn, in the
\* order of the calls: trace_id, conversation_id, msg_uuid.
BuildRequest(msgs, model_name, inject, ids) ==
    LET cms == convert_messages(msgs, ids[3], inject)
        data == CursorRequest_encode([messages |-> cms, model |-> model_name,
                                      paths |-> cursor_working_dir,
                                      trace_id |-> ids[1], conversation_id |-> ids[2]])
    IN  [cursor_messages |-> cms, proto_data |-> data,
         envelope |-> build_grpc_envelope(data)]

\* ----------------------------------------------------- the upstream's side

\* One response frame as the upstream writes it: marker, b1 = b3 + 2, 0x0A, b3, payload.
Frame(payload) == delimiter \o <<Len(payload) + 2, 10, Len(payload)>> \o payload

\* What a response is made of: frames (text "A", text U+00E9, empty payload, a payload
\* that is not UTF-8, a payload of four zero bytes) and bytes that are no frame
\* (a zero, a marker with b2 wrong, a marker with b1 - 2 # b3, a zero run ending
\* in 02 0A, a letter).
Segments ==
    { Frame(<<65>>), Frame(<<195, 169>>), Frame(<<>>), Frame(<<255>>),
      Frame(<<0, 0, 0, 0>>),
      <<0>>, <<0, 0, 0, 0, 3, 11, 1>>, <<0, 0, 0, 0, 5, 10, 1>>,
      <<0, 0, 0, 0, 0, 2, 10>>, <<66>> }

RECURSIVE WiresOf(_)
\* Every concatenation of at most n segments.
WiresOf(n) ==
    IF n = 0 THEN {<<>>}
    ELSE LET shorter == WiresOf(n - 1)
         IN  shorter \cup {w \o g : w \in shorter, g \in Segments}

Wires == WiresOf(MaxSegs)

\* response.status_code
Statuses == {200, 204, 401, 500}

\* The body of a response that is not 200: empty, "E", one byte that is not UTF-8.
Bodies == {<<>>, <<69>>, <<255>>}

\* settings.cursor_token
RawTokens ==
    { <<>>, <<" ">>, <<"u", ":", ":">>, <<"u", ":", ":", "t">>, <<"t", " ">> }

Modes == {"stream", "blocking"}

\* ----------------------------------------------------------- the exchange

\* async with without its exit: the connection stays as it is.
aexit_leaving_open(c) == c

\* Leaving the two async with blocks (httpx.AsyncClient, client.stream) by return,
\* by an exception or by the generator being closed: the response and the client
\* are closed, and the connection with them.
aexit(c) == IF c = "open" THEN "closed" ELSE c

NoError == [kind |-> "none", status |-> 0, body |-> <<>>]
NotReturned == [returned |-> FALSE, text |-> <<>>]

decoderVars == <<pending, shape, received, nchunks, buffer, base, fragment, yielded, log>>
pureVars == <<value, encoded, encoder, field_num>>
inputVars == <<messages, model, system_prompt_inject, uuid4s>>
requestVars == <<cursor_messages, proto_data, envelope>>
sseVars == <<events, generate>>

\* str(uuid.uuid4()): 36 characters, hyphens at four places, here the digit c
\* at every other.
Uuid(c) == [i \in 1..36 |-> IF i \in {9, 14, 19, 24} THEN 45 ELSE c]

\* The three values uuid4() hands to one exchange.
DefaultIds == <<Uuid(97), Uuid(98), Uuid(99)>>

\* A message whose content is the str text.
TextMessage(role, text) == [role |-> role, content |-> [kind |-> "str", text |-> text]]

\* [{"role": "user", "content": "hi"}]
OneUserMessage == <<TextMessage("user", <<104, 105>>)>>

\* "gpt-4o"
DefaultModel == <<103, 112, 116, 45, 52, 111>>

\* No second exchange is running.
NoPeer == [pc |-> "none", pending |-> <<>>, received |-> <<>>, buffer |-> <<>>,
           base |-> 0, yielded |-> <<>>]

\* The exchange is not consumed by the streaming endpoint.
NoGenerator == events = <<>> /\ generate = "none"

\* One request with the default settings, nothing built yet.
DefaultRequest ==
    /\ messages = OneUserMessage
    /\ model = DefaultModel
    /\ system_prompt_inject = <<>>
    /\ uuid4s = DefaultIds

NothingBuilt ==
    /\ cursor_messages = <<>>
    /\ proto_data = <<>>
    /\ envelope = <<>>

NoEncoderCall ==
    /\ encoder = "none"
    /\ field_num = 0

\* cursor_client = CursorClient(): the token is cleaned once, at construction.
Init ==
    /\ pc = "start"
    /\ mode \in Modes
    /\ cursor_token \in RawTokens
    /\ token = get_clean_token(cursor_token)
    /\ posts = 0
    /\ status = 0
    /\ error_body = <<>>
    /\ pending = <<>>
    /\ shape = 0
    /\ received = <<>>
    /\ nchunks = 0
    /\ buffer = <<>>
    /\ base = 0
    /\ fragment = <<>>
    /\ yielded = <<>>
    /\ log = <<>>
    /\ full_response = <<>>
    /\ result = NotReturned
    /\ error = NoError
    /\ value = 0
    /\ encoded = <<>>
    /\ NoEncoderCall
    /\ DefaultRequest
    /\ NothingBuilt
    /\ conn = "none"
    /\ peer = NoPeer
    /\ NoGenerator

\* The test of the token left out.
NeverNotConfigured(tok) == FALSE

\* not self.token
NotConfigured(tok) == tok = <<>>

\* if not self.token: raise ValueError (the client called directly), and the same
\* test in chat_completions, which answers 500 before it calls the client.
RaiseNotConfigured ==
    /\ pc = "start"
    /\ NotConfigured(token)
    /\ \E k \in {"ValueError", "HTTPException"} :
           error' = [kind |-> k, status |-> IF k = "HTTPException" THEN 500 ELSE 0,
                     body |-> <<>>]
    /\ pc' = "failed"
    /\ UNCHANGED <<mode, cursor_token, token, posts, status, error_body,
                   full_response, result>>
    /\ UNCHANGED decoderVars
    /\ UNCHANGED pureVars
    /\ UNCHANGED inputVars
    /\ UNCHANGED sseVars
    /\ UNCHANGED requestVars
    /\ UNCHANGED <<conn, peer>>

\* The POST inside a loop that tries again after a failure.
IssuePostRetrying ==
    /\ pc \in {"start", "failed"}
    /\ ~NotConfigured(token)
    /\ LET r == BuildRequest(messages, model, system_prompt_inject, uuid4s)
       IN  /\ cursor_messages' = r.cursor_messages
           /\ proto_data' = r.proto_data
           /\ envelope' = r.envelope
    /\ posts' = posts + 1
    /\ pc' = "posted"
    /\ error' = NoError
    /\ UNCHANGED <<mode, cursor_token, token, status, error_body, full_response, result>>
    /\ UNCHANGED decoderVars
    /\ UNCHANGED pureVars
    /\ UNCHANGED inputVars
    /\ UNCHANGED sseVars
    /\ UNCHANGED <<conn, peer>>

\* The request is built and client.stream("POST", url, content=envelope,
\* headers=headers) is entered.
IssuePost ==
    /\ pc = "start"
    /\ ~NotConfigured(token)
    /\ LET r == BuildRequest(messages, model, system_prompt_inject, uuid4s)
       IN  /\ cursor_messages' = r.cursor_messages
           /\ proto_data' = r.proto_data
           /\ envelope' = r.envelope
    /\ posts' = posts + 1
    /\ pc' = "posted"
    /\ UNCHANGED <<mode, cursor_token, token, status, error_body,
                   full_response, result, error>>
    /\ UNCHANGED decoderVars
    /\ UNCHANGED pureVars
    /\ UNCHANGED inputVars
    /\ UNCHANGED sseVars
    /\ UNCHANGED <<conn, peer>>

\* The connection cannot be made, or times out before the response starts.
ConnectFailure ==
    /\ pc = "posted"
    /\ error' = [kind |-> "httpx.TransportError", status |-> 0, body |-> <<>>]
    /\ pc' = "failed"
    /\ UNCHANGED <<mode, cursor_token, token, posts, status, error_body,
                   full_response, result>>
    /\ UNCHANGED decoderVars
    /\ UNCHANGED pureVars
    /\ UNCHANGED inputVars
    /\ UNCHANGED sseVars
    /\ UNCHANGED requestVars
    /\ UNCHANGED <<conn, peer>>

\* f"Cursor API error: {response.status_code} - {error_body.decode()}": the
\* exception raised for a response that is not 200
StatusError(st, body) ==
    LET d == Utf8Decode(body)
    IN  IF d.ok THEN [kind |-> "Exception", status |-> st, body |-> d.text]
        ELSE [kind |-> "UnicodeDecodeError", status |-> 0, body |-> <<>>]

\* if response.status_code != 200: read the body and raise
ResponseNot200 ==
    /\ pc = "posted"
    /\ \E st \in Statuses \ {200}, b \in Bodies :
           /\ status' = st
           /\ error_body' = b
           /\ error' = StatusError(st, b)
    /\ conn' = aexit("open")
    /\ pc' = "failed"
    /\ UNCHANGED <<mode, cursor_token, token, posts, full_response, result>>
    /\ UNCHANGED decoderVars
    /\ UNCHANGED pureVars
    /\ UNCHANGED inputVars
    /\ UNCHANGED sseVars
    /\ UNCHANGED requestVars
    /\ UNCHANGED peer

\* status 200: buffer = b"" and the chunk loop starts
Response200 ==
    /\ pc = "posted"
    /\ status' = 200
    /\ \E w \in Wires : pending' = w
    /\ buffer' = <<>>
    /\ conn' = "open"
    /\ pc' = "streaming"
    /\ UNCHANGED <<mode, cursor_token, token, posts, error_body,
                   full_response, result, error>>
    /\ UNCHANGED <<shape, received, nchunks, base, fragment, yielded, log>>
    /\ UNCHANGED pureVars
    /\ UNCHANGED inputVars
    /\ UNCHANGED sseVars
    /\ UNCHANGED requestVars
    /\ UNCHANGED peer

\* async for chunk in response.aiter_bytes(): buffer += chunk, for a chunk of
\* the next k bytes
ReceiveBytes(k) ==
    /\ pc = "streaming"
    /\ pending # <<>>
    /\ buffer' = buffer \o Slice(pending, 0, k)
    /\ received' = received \o Slice(pending, 0, k)
    /\ pending' = DropFirst(pending, k)
    /\ nchunks' = Min(nchunks + 1, MaxChunkCount)
    /\ pc' = "parsing"
    /\ UNCHANGED <<mode, cursor_token, token, posts, status, error_body,
                   full_response, result, error>>
    /\ UNCHANGED <<shape, base, fragment, yielded, log>>
    /\ UNCHANGED pureVars
    /\ UNCHANGED inputVars
    /\ UNCHANGED sseVars
    /\ UNCHANGED requestVars
    /\ UNCHANGED <<conn, peer>>

\* The network cuts the response into chunks wherever it likes.
ReceiveChunk == \E k \in 1..Len(pending) : ReceiveBytes(k)

\* The whole response arrives as one chunk.
ReceiveWhole == ReceiveBytes(Len(pending))

\* Which return of _parse_grpc_chunk gave consumed == 0 on buf: no marker, a
\* marker whose three header bytes have not all arrived, or a valid header whose
\* payload has not all arrived.
HaltReason(buf) ==
    LET idx == Find(buf, delimiter)
    IN  IF idx = -1 THEN "no_marker"
        ELSE IF Len(buf) < idx + 7 THEN "short_header"
        ELSE "short_payload"

\* One turn of the while True loop: parse; break on consumed == 0; otherwise cut
\* the buffer and, for a text that is not empty, yield it.
ParseStep ==
    /\ pc = "parsing"
    /\ LET p == parse_grpc_chunk(buffer)
       IN  IF p.raised
           THEN /\ pc' = "failed"
                /\ error' = [kind |-> "UnicodeDecodeError", status |-> 0, body |-> <<>>]
                /\ conn' = aexit(conn)
                /\ UNCHANGED <<buffer, base, fragment, yielded, log>>
           ELSE IF p.consumed = 0
           THEN /\ pc' = "streaming"
                /\ UNCHANGED <<buffer, base, fragment, yielded, log, error, conn>>
           ELSE /\ buffer' = DropFirst(buffer, p.consumed)
                /\ base' = base + p.consumed
                /\ IF p.text # <<>>
                   THEN /\ fragment' = p.text
                        /\ yielded' = Append(yielded, p.text)
                        /\ log' = Append(log, [start |-> base + Find(buffer, delimiter),
                                               at |-> base + p.consumed])
                        /\ pc' = "yield"
                   ELSE /\ pc' = "parsing"
                        /\ UNCHANGED <<fragment, yielded, log>>
                /\ UNCHANGED <<error, conn>>
    /\ UNCHANGED <<mode, cursor_token, token, posts, status, error_body,
                   full_response, result>>
    /\ UNCHANGED <<pending, shape, received, nchunks>>
    /\ UNCHANGED pureVars
    /\ UNCHANGED inputVars
    /\ UNCHANGED sseVars
    /\ UNCHANGED requestVars
    /\ UNCHANGED peer

\* full_response = chunk
Overwrite(acc, chunk) == chunk

\* full_response += chunk
Accumulate(acc, chunk) == acc \o chunk

\* The consumer takes the yielded text and asks for the next: chat_completion
\* accumulates it, a streaming consumer only receives it.
Resume ==
    /\ pc = "yield"
    /\ full_response' = IF mode = "blocking" THEN Accumulate(full_response, fragment)
                        ELSE full_response
    /\ pc' = "parsing"
    /\ UNCHANGED <<mode, cursor_token, token, posts, status, error_body, result, error>>
    /\ UNCHANGED decoderVars
    /\ UNCHANGED pureVars
    /\ UNCHANGED inputVars
    /\ UNCHANGED sseVars
    /\ UNCHANGED requestVars
    /\ UNCHANGED <<conn, peer>>

\* The end of the stream reported as an error when bytes are left in the buffer.
EndOfStreamRaising ==
    /\ pc = "streaming"
    /\ pending = <<>>
    /\ IF buffer = <<>>
       THEN /\ pc' = "done"
            /\ result' = IF mode = "blocking"
                         THEN [returned |-> TRUE, text |-> full_response] ELSE result
            /\ UNCHANGED error
       ELSE /\ pc' = "failed"
            /\ error' = [kind |-> "ValueError", status |-> 0, body |-> <<>>]
            /\ UNCHANGED result
    /\ conn' = aexit(conn)
    /\ UNCHANGED <<mode, cursor_token, token, posts, status, error_body, full_response>>
    /\ UNCHANGED decoderVars
    /\ UNCHANGED pureVars
    /\ UNCHANGED inputVars
    /\ UNCHANGED sseVars
    /\ UNCHANGED requestVars
    /\ UNCHANGED peer

\* aiter_bytes() is exhausted: the generator returns, whatever the buffer holds;
\* chat_completion returns full_response.
EndOfStream ==
    /\ pc = "streaming"
    /\ pending = <<>>
    /\ result' = IF mode = "blocking" THEN [returned |-> TRUE, text |-> full_response]
                 ELSE result
    /\ conn' = aexit(conn)
    /\ pc' = "done"
    /\ UNCHANGED <<mode, cursor_token, token, posts, status, error_body,
                   full_response, error>>
    /\ UNCHANGED decoderVars
    /\ UNCHANGED pureVars
    /\ UNCHANGED inputVars
    /\ UNCHANGED sseVars
    /\ UNCHANGED requestVars
    /\ UNCHANGED peer

\* The connection drops or the timeout expires while the next chunk is awaited:
\* httpx raises out of aiter_bytes(), through the generator and chat_completion.
StreamFailure ==
    /\ pc = "streaming"
    /\ pending # <<>>
    /\ error' = [kind |-> "httpx.TransportError", status |-> 0, body |-> <<>>]
    /\ conn' = aexit(conn)
    /\ pc' = "failed"
    /\ UNCHANGED <<mode, cursor_token, token, posts, status, error_body,
                   full_response, result>>
    /\ UNCHANGED decoderVars
    /\ UNCHANGED pureVars
    /\ UNCHANGED inputVars
    /\ UNCHANGED sseVars
    /\ UNCHANGED requestVars
    /\ UNCHANGED peer

Next ==
    \/ RaiseNotConfigured
    \/ IssuePost
    \/ ConnectFailure
    \/ ResponseNot200
    \/ Response200
    \/ ReceiveChunk
    \/ ParseStep
    \/ Resume
    \/ EndOfStream
    \/ StreamFailure

Spec == Init /\ [][Next]_vars

\* ------------------------------------------------------------------ claims

RECURSIVE Flatten(_)
\* The texts of a sequence, concatenated in order.
Flatten(texts) == IF texts = <<>> THEN <<>> ELSE Head(texts) \o Flatten(Tail(texts))

\* C1: whatever way the response bytes are cut into chunks, once the parse loop
\* has stopped the texts yielded so far are those the loop yields on the same
\* bytes held in one buffer, in the same order.
ChunkingInvariance ==
    pc \in {"streaming", "done"} => yielded = Drain(received).texts

\* C1 witness: a frame whose two-byte character arrived in two chunks, cut
\* somewhere inside the frame, was yielded as one text.
ChunkingWitness ==
    /\ pc = "done"
    /\ nchunks = 2
    /\ received = Frame(<<195, 169>>)
    /\ yielded = << <<233>> >>

\* The header at 0-based index i of s passes both checks of _parse_grpc_chunk.
HeaderOk(s, i) == At(s, i + 5) = 10 /\ At(s, i + 4) - 2 = At(s, i + 6)

\* C4: texts are yielded in the order of their frames in the byte stream: the
\* i-th text is the payload of a well-formed frame of the received bytes, that
\* frame starts where the one before ended or later, and at the yield every byte
\* up to the frame's end had been cut from the buffer, which holds exactly the
\* bytes after it.
ArrivalOrder ==
    /\ Len(log) = Len(yielded)
    /\ buffer = DropFirst(received, base)
    /\ \A i \in 1..Len(log) :
           LET st == log[i].start
               en == st + 7 + At(received, st + 6)
           IN  /\ Slice(received, st, st + 4) = delimiter
               /\ HeaderOk(received, st)
               /\ Utf8Decode(Slice(received, st + 7, en)) = [ok |-> TRUE, text |-> yielded[i]]
               /\ log[i].at = en
               /\ i > 1 => log[i - 1].at <= st
    /\ log # <<>> => log[Len(log)].at <= base
    /\ pc = "yield" => log[Len(log)].at = base

\* C4 witness: two frames in one response, the text of the first yielded first
\* and the second at its yield, every byte before it consumed.
ArrivalOrderWitness ==
    /\ pc = "yield"
    /\ received = Frame(<<65>>) \o Frame(<<195, 169>>)
    /\ yielded = << <<65>>, <<233>> >>
    /\ log[1].at = log[2].start
    /\ buffer = <<>>

\* C5: chat_completion returns the concatenation, in order, of the texts the
\* stream yielded, and returns nothing when the exchange ended in an exception.
BlockingIsConcatenation ==
    /\ (mode = "blocking" /\ pc = "done") =>
           result = [returned |-> TRUE, text |-> Flatten(yielded)]
    /\ pc = "failed" => (result = NotReturned /\ error # NoError)
    /\ result.returned => (pc = "done" /\ error = NoError)

\* C5 witness: chat_completion returned after two texts.
BlockingWitness ==
    /\ mode = "blocking"
    /\ pc = "done"
    /\ Len(yielded) = 2
    /\ result.returned

\* C6: with an empty cleaned credential no POST is issued, no response is read,
\* no text is yielded and nothing is returned; the exchange is at its start or
\* has failed with the configuration error.
NotConfiguredFailsFirst ==
    token = <<>> =>
        /\ posts = 0
        /\ status = 0
        /\ received = <<>>
        /\ yielded = <<>>
        /\ result = NotReturned
        /\ pc \in {"start", "failed"}
        /\ pc = "failed" => error.kind \in {"ValueError", "HTTPException"}

\* C6 witness: a credential that is only a separator, cleaned to nothing, failed.
NotConfiguredWitness ==
    /\ cursor_token = <<"u", ":", ":">>
    /\ token = <<>>
    /\ pc = "failed"
    /\ error.kind = "ValueError"

\* An HTTP status of the success class.
IsSuccess(st) == st >= 200 /\ st <= 299

\* C7: a response whose status is not a success ends the exchange with an error
\* that carries the status and the body, before any byte reaches the decoder.
StatusErrorCarriesStatusAndBody ==
    (status # 0 /\ ~IsSuccess(status)) =>
        /\ pc = "failed"
        /\ error.kind = "Exception"
        /\ error.status = status
        /\ Utf8Decode(error_body) = [ok |-> TRUE, text |-> error.body]
        /\ received = <<>>
        /\ yielded = <<>>

\* The first marker of s starts a frame with a valid header whose payload has
\* fully arrived and is not UTF-8.
UndecodableFirst(s) ==
    LET idx == Find(s, delimiter)
    IN  /\ idx # -1
        /\ Len(s) >= idx + 7
        /\ HeaderOk(s, idx)
        /\ Len(s) >= idx + 7 + At(s, idx + 6)
        /\ ~Utf8Decode(Slice(s, idx + 7, idx + 7 + At(s, idx + 6))).ok

\* C8: an undecodable payload never surfaces: no decode error ends a streaming
\* exchange, and when the first frame of the stream has a valid header and a
\* payload that is not UTF-8, then once the parse loop has stopped the frame's
\* bytes are consumed and the texts yielded are exactly those of the bytes
\* after it.
DecodeAnomalyAbsorbed ==
    /\ status = 200 => error.kind \in {"none", "httpx.TransportError"}
    /\ (pc \in {"streaming", "done"} /\ UndecodableFirst(received)) =>
           LET idx == Find(received, delimiter)
               en == idx + 7 + At(received, idx + 6)
           IN  /\ base >= en
               /\ yielded = Drain(DropFirst(received, en)).texts

\* C8 witness: an undecodable frame, then a frame with text "A", which was yielded.
DecodeAnomalyWitness ==
    /\ pc = "done"
    /\ received = Frame(<<255>>) \o Frame(<<65>>)
    /\ yielded = << <<65>> >>
    /\ error = NoError

\* ------------------------------------------- one frame, one buffer (C2)

\* The longest payload a header can announce: b1 = b3 + 2 is one byte.
MaxPayloadLen == 255 - 2

\* Payloads of n bytes: letters, zero bytes (text of NUL characters, markers
\* included), and for an even n the two-byte character U+00E9.
PayloadsOf(n) ==
    {Rep(<<65>>, n), Rep(<<0>>, n)}
        \cup (IF n % 2 = 0 THEN {Rep(<<195, 169>>, n \div 2)} ELSE {})

\* The text such a payload spells: one code point per byte, or per pair of bytes
\* for U+00E9.
ExpectedText(payload) ==
    IF payload # <<>> /\ payload[1] = 195 THEN Rep(<<233>>, Len(payload) \div 2)
    ELSE payload

\* An exchange whose 200 response is about to arrive, carrying the bytes wire.
StreamingAlone(wire, decoy) ==
    /\ pc = "streaming"
    /\ mode = "stream"
    /\ cursor_token = <<"t">>
    /\ token = <<"t">>
    /\ posts = 1
    /\ status = 200
    /\ error_body = <<>>
    /\ pending = wire
    /\ shape = decoy
    /\ received = <<>>
    /\ nchunks = 0
    /\ buffer = <<>>
    /\ base = 0
    /\ fragment = <<>>
    /\ yielded = <<>>
    /\ log = <<>>
    /\ full_response = <<>>
    /\ result = NotReturned
    /\ error = NoError
    /\ value = 0
    /\ encoded = <<>>
    /\ NoEncoderCall
    /\ DefaultRequest
    /\ LET r == BuildRequest(OneUserMessage, DefaultModel, <<>>, DefaultIds)
       IN  /\ cursor_messages = r.cursor_messages
           /\ proto_data = r.proto_data
           /\ envelope = r.envelope
    /\ conn = "open"

\* The same with no second exchange running.
Streaming(wire, decoy) == StreamingAlone(wire, decoy) /\ peer = NoPeer /\ NoGenerator

InitFrame == \E n \in 0..MaxPayloadLen : \E p \in PayloadsOf(n) : Streaming(Frame(p), 0)

NextFrame ==
    \/ ReceiveWhole
    \/ ParseStep
    \/ Resume
    \/ EndOfStream

SpecFrame == InitFrame /\ [][NextFrame]_vars

\* The payload of the frame that follows the decoy of `shape` bytes.
FramePayload == DropFirst(received, shape + 7)

\* C2 as stated: a buffer holding exactly one well-formed frame yields exactly
\* one text, the payload's, and is left empty, for every payload length 0..253.
SingleFrameYieldsOne ==
    pc = "done" => (yielded = <<ExpectedText(FramePayload)>> /\ buffer = <<>>)

\* C2 amended: a buffer holding exactly one well-formed frame is left empty; it
\* yields exactly one text, the payload's, for a payload of 1..253 bytes, and
\* no text for the payload of 0 bytes.
SingleFrameDrained ==
    pc = "done" =>
        /\ buffer = <<>>
        /\ yielded = IF FramePayload = <<>> THEN <<>> ELSE <<ExpectedText(FramePayload)>>

\* C2 witness: the frame with the longest payload, 253 bytes, yielded as one text.
SingleFrameWitness ==
    /\ pc = "done"
    /\ Len(received) = 7 + MaxPayloadLen
    /\ Len(yielded) = 1
    /\ Len(yielded[1]) = MaxPayloadLen
    /\ buffer = <<>>

\* ------------------------------------------- a decoy before a frame (C3)

JunkBytes == {0, 2, 10, 66}

\* A decoy: a run of at least four zero bytes, then up to MaxJunk other bytes.
Decoys ==
    {Rep(<<0>>, n) \o j : n \in 4..MaxZeroRun,
                          j \in UNION {[1..k -> JunkBytes] : k \in 0..MaxJunk}}

DecoyFrames == {Frame(<<65>>), Frame(<<195, 169>>), Frame(<<>>)}

InitDecoy == \E d \in Decoys, f \in DecoyFrames : Streaming(d \o f, Len(d))

NextDecoy ==
    \/ ReceiveChunk
    \/ ParseStep
    \/ Resume
    \/ EndOfStream

SpecDecoy == InitDecoy /\ [][NextDecoy]_vars

\* Every 00 00 00 00 that starts in the first d bytes of s is followed by three
\* bytes that fail the header check.
DecoyFails(s, d) ==
    \A i \in 0..(d - 1) : Slice(s, i, i + 4) = delimiter => ~HeaderOk(s, i)

\* C3 as stated: a decoy immediately followed by one valid frame yields exactly
\* one text, the frame's payload.
DecoyThenFrameYieldsOne ==
    (pc = "done" /\ DecoyFails(received, shape)) =>
        yielded = <<ExpectedText(FramePayload)>>

\* C3 amended: a decoy immediately followed by one valid frame yields the frame's
\* payload as the only text when the payload is not empty, and no text when it is
\* empty; the buffer is left empty.
DecoyThenFrame ==
    (pc = "done" /\ DecoyFails(received, shape)) =>
        /\ yielded = IF FramePayload = <<>> THEN <<>> ELSE <<ExpectedText(FramePayload)>>
        /\ buffer = <<>>

\* C3 witness: five zero bytes and a marker with b2 wrong, cut into chunks, then
\* the frame of "A", which is the one text yielded.
DecoyWitness ==
    /\ pc = "done"
    /\ shape = 7
    /\ received = <<0, 0, 0, 0, 0, 66, 10>> \o Frame(<<65>>)
    /\ DecoyFails(received, shape)
    /\ nchunks = 3
    /\ yielded = << <<65>> >>

\* ------------------------------------------------ credential cleaning (C9)

TokenPieces == {<<":">>, <<"%", "3", "A">>, <<"x">>, <<" ">>}

RECURSIVE TokensOf(_)
\* Every concatenation of at most n pieces.
TokensOf(n) ==
    IF n = 0 THEN {<<>>}
    ELSE LET shorter == TokensOf(n - 1)
         IN  shorter \cup {t \o g : t \in shorter, g \in TokenPieces}

\* A::B%3A%3AC::D
DocumentedToken ==
    <<"A", ":", ":", "B", "%", "3", "A", "%", "3", "A", "C", ":", ":", "D">>

InitToken ==
    /\ pc = "settings"
    /\ mode = "stream"
    /\ cursor_token \in TokensOf(MaxTokenParts) \cup {DocumentedToken}
    /\ token = <<>>
    /\ posts = 0
    /\ status = 0
    /\ error_body = <<>>
    /\ pending = <<>>
    /\ shape = 0
    /\ received = <<>>
    /\ nchunks = 0
    /\ buffer = <<>>
    /\ base = 0
    /\ fragment = <<>>
    /\ yielded = <<>>
    /\ log = <<>>
    /\ full_response = <<>>
    /\ result = NotReturned
    /\ error = NoError
    /\ value = 0
    /\ encoded = <<>>
    /\ NoEncoderCall
    /\ DefaultRequest
    /\ NothingBuilt
    /\ conn = "none"
    /\ peer = NoPeer
    /\ NoGenerator

\* CursorClient.__init__: self.token = settings.get_clean_token()
ConstructClient ==
    /\ pc = "settings"
    /\ token' = get_clean_token(cursor_token)
    /\ pc' = "start"
    /\ UNCHANGED <<mode, cursor_token, posts, status, error_body,
                   full_response, result, error>>
    /\ UNCHANGED decoderVars
    /\ UNCHANGED pureVars
    /\ UNCHANGED inputVars
    /\ UNCHANGED sseVars
    /\ UNCHANGED requestVars
    /\ UNCHANGED <<conn, peer>>

NextToken == ConstructClient

SpecToken == InitToken /\ [][NextToken]_vars

\* s.rfind(sub): the highest 0-based index where sub occurs, -1 when none
FindLast(s, sub) ==
    LET hits == {i \in 0..(Len(s) - Len(sub)) : Slice(s, i, i + Len(sub)) = sub}
    IN  IF hits = {} THEN -1
        ELSE CHOOSE i \in hits : \A j \in hits : i >= j

\* The substring after the last occurrence of sep, s itself when there is none.
AfterLast(s, sep) ==
    IF FindLast(s, sep) = -1 THEN s ELSE DropFirst(s, FindLast(s, sep) + Len(sep))

\* The stated rule: after the last %3A%3A, then after the last ::, then trimmed.
CleaningRule(raw) == Strip(AfterLast(AfterLast(raw, EncodedSep), LiteralSep))

\* C9: the cleaned credential is what the stated rule gives: the substring after
\* the last %3A%3A, of that the substring after the last ::, trimmed.
CleaningFollowsRule ==
    pc = "start" => token = CleaningRule(cursor_token)

\* ---------------------------------------------------------- varint (C10)

VarintValues ==
    (0..MaxDenseVarint)
        \cup (16382..16385) \cup (2097150..2097153)
        \cup {268435455, 268435456, 2147483647}

InitVarint ==
    /\ pc = "encode"
    /\ mode = "stream"
    /\ cursor_token = <<>>
    /\ token = <<>>
    /\ posts = 0
    /\ status = 0
    /\ error_body = <<>>
    /\ pending = <<>>
    /\ shape = 0
    /\ received = <<>>
    /\ nchunks = 0
    /\ buffer = <<>>
    /\ base = 0
    /\ fragment = <<>>
    /\ yielded = <<>>
    /\ log = <<>>
    /\ full_response = <<>>
    /\ result = NotReturned
    /\ error = NoError
    /\ value \in VarintValues
    /\ encoded = <<>>
    /\ encoder = "encode_varint"
    /\ field_num = 0
    /\ DefaultRequest
    /\ NothingBuilt
    /\ conn = "none"
    /\ peer = NoPeer
    /\ NoGenerator

\* A call of ProtobufEncoder.encode_varint(value)
EncodeVarint ==
    /\ pc = "encode"
    /\ encoder = "encode_varint"
    /\ encoded' = encode_varint(value)
    /\ pc' = "encoded"
    /\ UNCHANGED <<mode, cursor_token, token, posts, status, error_body,
                   full_response, result, error, value, encoder, field_num>>
    /\ UNCHANGED decoderVars
    /\ UNCHANGED inputVars
    /\ UNCHANGED sseVars
    /\ UNCHANGED requestVars
    /\ UNCHANGED <<conn, peer>>

NextVarint == EncodeVarint

SpecVarint == InitVarint /\ [][NextVarint]_vars

RECURSIVE DecodeVarint(_)
\* The standard little-endian base-128 decoder: the value read and the bytes
\* used, reading up to the first byte with a clear high bit.
DecodeVarint(bytes) ==
    IF bytes = <<>> THEN [value |-> 0, used |-> 0, complete |-> FALSE]
    ELSE IF Head(bytes) < 128 THEN [value |-> Head(bytes), used |-> 1, complete |-> TRUE]
    ELSE LET r == DecodeVarint(Tail(bytes))
         IN  [value |-> (Head(bytes) - 128) + 128 * r.value,
              used |-> r.used + 1,
              complete |-> r.complete]

\* C10: decoding the bytes of encode_varint gives the value back and uses all of
\* them; every byte but the last has its high bit set, the last has it clear;
\* 0 is the single byte 00.
VarintRoundTrip ==
    pc = "encoded" =>
        /\ DecodeVarint(encoded) = [value |-> value, used |-> Len(encoded), complete |-> TRUE]
        /\ encoded # <<>>
        /\ \A i \in 1..(Len(encoded) - 1) : encoded[i] >= 128 /\ encoded[i] <= 255
        /\ encoded[Len(encoded)] >= 0 /\ encoded[Len(encoded)] <= 127
        /\ value = 0 => encoded = <<0>>

\* C10 witness: 2^21 - 1 encoded in three bytes.
VarintWitness ==
    /\ pc = "encoded"
    /\ value = 2097151
    /\ encoded = <<255, 255, 127>>

\* ------------------------------------------------------ field encoders (C11)

FieldEncoders == {"encode_string", "encode_bytes", "encode_uint64", "encode_message"}

\* The field numbers the requests use, and one whose tag takes three bytes.
FieldNums == {1, 2, 5, 7, 9, 13, 15, 16, 2048}

\* Lengths around the step of the length varint from one byte to two.
FieldLens == {1, 127, 128, MaxFieldLen}

\* Texts: empty, of one-byte, two-byte, three-byte and four-byte characters, and
\* the NUL character.
FieldTexts ==
    {<<>>, <<0>>, <<233>>, <<8364>>, <<128512>>, <<65, 233, 8364, 128512>>}
        \cup {Rep(<<65>>, n) : n \in FieldLens}
        \cup {Rep(<<233>>, n \div 2) : n \in FieldLens \ {1}}

FieldBytes ==
    {<<>>, <<0>>, <<255>>, <<0, 0, 0, 0>>} \cup {Rep(<<7>>, n) : n \in FieldLens}

FieldInts == {0, 1, 2, 127, 128, 300, 16384, 2147483647}

FieldValues(enc) ==
    IF enc = "encode_string" THEN FieldTexts
    ELSE IF enc = "encode_uint64" THEN FieldInts
    ELSE FieldBytes

InitField ==
    /\ pc = "encode"
    /\ mode = "stream"
    /\ cursor_token = <<>>
    /\ token = <<>>
    /\ posts = 0
    /\ status = 0
    /\ error_body = <<>>
    /\ pending = <<>>
    /\ shape = 0
    /\ received = <<>>
    /\ nchunks = 0
    /\ buffer = <<>>
    /\ base = 0
    /\ fragment = <<>>
    /\ yielded = <<>>
    /\ log = <<>>
    /\ full_response = <<>>
    /\ result = NotReturned
    /\ error = NoError
    /\ encoder \in FieldEncoders
    /\ field_num \in FieldNums
    /\ value \in FieldValues(encoder)
    /\ encoded = <<>>
    /\ DefaultRequest
    /\ NothingBuilt
    /\ conn = "none"
    /\ peer = NoPeer
    /\ NoGenerator

\* A call of ProtobufEncoder.encode_string, encode_bytes, encode_uint64 or
\* encode_message with (field_num, value)
EncodeField ==
    /\ pc = "encode"
    /\ encoder \in FieldEncoders
    /\ encoded' = IF encoder = "encode_string" THEN encode_string(field_num, value)
                  ELSE IF encoder = "encode_bytes" THEN encode_bytes(field_num, value)
                  ELSE IF encoder = "encode_uint64" THEN encode_uint64(field_num, value)
                  ELSE encode_message(field_num, value)
    /\ pc' = "encoded"
    /\ UNCHANGED <<mode, cursor_token, token, posts, status, error_body,
                   full_response, result, error, value, encoder, field_num>>
    /\ UNCHANGED decoderVars
    /\ UNCHANGED inputVars
    /\ UNCHANGED sseVars
    /\ UNCHANGED requestVars
    /\ UNCHANGED <<conn, peer>>

NextField == EncodeField

SpecField == InitField /\ [][NextField]_vars

\* The value of the call is the one its encoder omits: 0 for encode_uint64, the
\* empty string or byte string for the others.
IsDefaultValue == IF encoder = "encode_uint64" THEN value = 0 ELSE value = <<>>

\* C11: an encoder returns no byte for an empty value (0 for encode_uint64); for
\* any other value its output reads back as the tag (field_num << 3) | wire type,
\* then, for wire type 2, a length equal to the number of bytes that follow it,
\* those bytes being the value (in UTF-8 for a string), and for encode_uint64 the
\* varint of the value and nothing more.
FieldOmissionAndLength ==
    (pc = "encoded" /\ encoder \in FieldEncoders) =>
        IF IsDefaultValue THEN encoded = <<>>
        ELSE LET tag == DecodeVarint(encoded)
                 rest == DropFirst(encoded, tag.used)
                 second == DecodeVarint(rest)
                 payload == DropFirst(rest, second.used)
             IN  /\ tag.complete
                 /\ second.complete
                 /\ IF encoder = "encode_uint64"
                    THEN /\ tag.value = field_num * 8
                         /\ second.value = value
                         /\ payload = <<>>
                    ELSE /\ tag.value = field_num * 8 + 2
                         /\ second.value = Len(payload)
                         /\ IF encoder = "encode_string"
                            THEN Utf8Decode(payload) = [ok |-> TRUE, text |-> value]
                            ELSE payload = value

\* C11 witness: 64 two-byte characters encoded as field 16: a two-byte tag, a
\* two-byte length of 128, and 128 bytes.
FieldWitness ==
    /\ pc = "encoded"
    /\ encoder = "encode_string"
    /\ field_num = 16
    /\ value = Rep(<<233>>, 64)
    /\ Len(encoded) = 2 + 2 + 128
    /\ SubSeq(encoded, 1, 4) = <<130, 1, 128, 1>>

\* --------------------------------------------- building the request (C12, C14)

\* A content that is a list of typed parts: text "a", an image, text "b".
PartsContent ==
    [kind |-> "list",
     parts |-> << [type |-> "text", text |-> <<97>>],
                  [type |-> "image_url", text |-> <<>>],
                  [type |-> "text", text |-> <<98>>] >>]

ChatRoles == {"user", "assistant", "system"}

\* Per role a message of empty text and one of "hi"; a system message of typed
\* parts; a long user message.
ChatMessages ==
    {TextMessage(r, t) : r \in ChatRoles, t \in {<<>>, <<104, 105>>}}
        \cup {[role |-> "system", content |-> PartsContent]}
        \cup {TextMessage("user", Rep(<<65>>, MaxFieldLen))}

RECURSIVE MessageLists(_)
\* Every list of at most n messages, repeated messages included.
MessageLists(n) ==
    IF n = 0 THEN {<<>>}
    ELSE LET shorter == MessageLists(n - 1)
         IN  shorter \cup {Append(l, m) : l \in shorter, m \in ChatMessages}

\* settings.system_prompt_inject: not configured, or "S"
Injections == {<<>>, <<83>>}

InitRequest ==
    /\ pc = "start"
    /\ mode = "stream"
    /\ cursor_token = <<"t">>
    /\ token = <<"t">>
    /\ posts = 0
    /\ status = 0
    /\ error_body = <<>>
    /\ pending = <<>>
    /\ shape = 0
    /\ received = <<>>
    /\ nchunks = 0
    /\ buffer = <<>>
    /\ base = 0
    /\ fragment = <<>>
    /\ yielded = <<>>
    /\ log = <<>>
    /\ full_response = <<>>
    /\ result = NotReturned
    /\ error = NoError
    /\ value = 0
    /\ encoded = <<>>
    /\ NoEncoderCall
    /\ messages \in MessageLists(MaxMessages)
    /\ model = DefaultModel
    /\ system_prompt_inject \in Injections
    /\ uuid4s \in {DefaultIds, <<Uuid(99), Uuid(97), Uuid(98)>>}
    /\ NothingBuilt
    /\ conn = "none"
    /\ peer = NoPeer
    /\ NoGenerator

NextRequest == IssuePost

SpecRequest == InitRequest /\ [][NextRequest]_vars

RECURSIVE ParseFields(_)
\* A protobuf reader: the fields of a message in order, each with its number,
\* its wire type and its value (the integer of a varint field, the bytes of a
\* length-delimited one); ok FALSE for bytes that are no sequence of such fields.
ParseFields(bytes) ==
    IF bytes = <<>> THEN [ok |-> TRUE, fields |-> <<>>]
    ELSE LET tag == DecodeVarint(bytes)
             rest == DropFirst(bytes, tag.used)
             second == DecodeVarint(rest)
             after == DropFirst(rest, second.used)
             wire == tag.value % 8
             num == tag.value \div 8
             size == IF wire = 2 THEN second.value ELSE 0
             this == [num |-> num, wire |-> wire,
                      val |-> IF wire = 2 THEN Slice(after, 0, size) ELSE second.value]
         IN  IF ~tag.complete \/ ~second.complete \/ wire \notin {0, 2} \/ Len(after) < size
             THEN [ok |-> FALSE, fields |-> <<>>]
             ELSE LET r == ParseFields(DropFirst(after, size))
                  IN  [ok |-> r.ok, fields |-> <<this>> \o r.fields]

\* The fields numbered n among fields.
FieldsNumbered(fields, n) == SelectSeq(fields, LAMBDA f : f.num = n)

\* The text of string field n of a record, empty when the record has none.
TextField(fields, n) ==
    IF FieldsNumbered(fields, n) = <<>> THEN [ok |-> TRUE, text |-> <<>>]
    ELSE Utf8Decode(FieldsNumbered(fields, n)[1].val)

\* The text a message stands for: its extracted text, for a system message with
\* the configured injection on a new line.
MessageText(msg, inject) ==
    IF msg.role = "system" /\ inject # <<>>
    THEN get_text_content(msg) \o <<10>> \o inject
    ELSE get_text_content(msg)

\* C12: the encoded request holds exactly one field-2 record per input message,
\* the i-th record carrying the i-th message's text, the role code 1 for user and
\* 2 for assistant and system, and in field 13 the one correlation id drawn for
\* the request.
RequestPreservesMessages ==
    pc = "posted" =>
        LET top == ParseFields(proto_data)
            recs == FieldsNumbered(top.fields, 2)
        IN  /\ top.ok
            /\ Len(recs) = Len(messages)
            /\ \A i \in 1..Len(recs) :
                   LET sub == ParseFields(recs[i].val)
                   IN  /\ recs[i].wire = 2
                       /\ sub.ok
                       /\ TextField(sub.fields, 1) =
                              [ok |-> TRUE, text |-> MessageText(messages[i], system_prompt_inject)]
                       /\ Len(FieldsNumbered(sub.fields, 2)) = 1
                       /\ FieldsNumbered(sub.fields, 2)[1].wire = 0
                       /\ FieldsNumbered(sub.fields, 2)[1].val =
                              (IF messages[i].role = "user" THEN 1 ELSE 2)
                       /\ Len(FieldsNumbered(sub.fields, 13)) = 1
                       /\ TextField(sub.fields, 13) = [ok |-> TRUE, text |-> uuid4s[3]]

\* C12 witness: a system message of empty text, a user message and the same
\* system message again, encoded as three records with role codes 2, 1, 2.
RequestWitness ==
    /\ pc = "posted"
    /\ messages = <<TextMessage("system", <<>>), TextMessage("user", <<104, 105>>),
                    TextMessage("system", <<>>)>>
    /\ system_prompt_inject = <<>>
    /\ Len(FieldsNumbered(ParseFields(proto_data).fields, 2)) = 3
    /\ [i \in 1..3 |-> cursor_messages[i].role] = <<2, 1, 2>>

\* C14: the body of the POST is one zero byte, the length of the encoded request
\* as four bytes, most significant first, and the encoded request unchanged: five
\* bytes more than the request.
EnvelopeFraming ==
    pc = "posted" =>
        /\ Len(envelope) = Len(proto_data) + 5
        /\ envelope[1] = 0
        /\ envelope[2] * 16777216 + envelope[3] * 65536 + envelope[4] * 256 + envelope[5]
               = Len(proto_data)
        /\ \A i \in 2..5 : envelope[i] \in 0..255
        /\ DropFirst(envelope, 5) = proto_data

\* C14 witness: a request longer than 255 bytes, its length spread over two of
\* the four length bytes.
EnvelopeWitness ==
    /\ pc = "posted"
    /\ Len(proto_data) > 255
    /\ envelope[4] > 0
    /\ envelope[5] > 0
    /\ SubSeq(envelope, 1, 3) = <<0, 0, 0>>

\* ------------------------------------ two exchanges on one client (C13)

\* What the upstream sends to the first exchange and to the second.
PairWires == {Frame(<<65>>) \o Frame(<<195, 169>>), <<0, 0, 0, 0, 5, 10, 1>> \o Frame(<<65>>)}
PeerWires == {Frame(<<66>>) \o <<0>> \o Frame(<<67>>), <<0, 0>> \o Frame(<<66, 67>>) \o <<0, 0>>}

\* A second call of cursor_client.chat_completion_stream whose 200 response is
\* about to arrive: its own generator frame, with its own buffer.
InitPair ==
    /\ \E w \in PairWires : StreamingAlone(w, 0)
    /\ \E w \in PeerWires :
           peer = [pc |-> "streaming", pending |-> w, received |-> <<>>, buffer |-> <<>>,
                   base |-> 0, yielded |-> <<>>]
    /\ NoGenerator

\* The second exchange reading self.buffer, an attribute of the one cursor_client
\* (here the buffer the first exchange fills).
SharedBuffer == buffer

\* buffer as the second exchange reads it: the local variable of its own
\* generator frame
PeerBuffer == peer.buffer

peerFrame == <<pc, mode, cursor_token, token, posts, status, error_body,
               full_response, result, error, conn>>

\* The second exchange: buffer += chunk, for a chunk of the next k bytes
PeerReceive ==
    /\ peer.pc = "streaming"
    /\ peer.pending # <<>>
    /\ \E k \in 1..Len(peer.pending) :
           peer' = [peer EXCEPT !.buffer = PeerBuffer \o Slice(peer.pending, 0, k),
                                !.received = peer.received \o Slice(peer.pending, 0, k),
                                !.pending = DropFirst(peer.pending, k),
                                !.pc = "parsing"]
    /\ UNCHANGED peerFrame
    /\ UNCHANGED decoderVars
    /\ UNCHANGED pureVars
    /\ UNCHANGED inputVars
    /\ UNCHANGED sseVars
    /\ UNCHANGED requestVars

\* The second exchange: one turn of the while True loop, its consumer taking a
\* yielded text at once
PeerParse ==
    /\ peer.pc = "parsing"
    /\ LET p == parse_grpc_chunk(PeerBuffer)
       IN  IF p.consumed = 0
           THEN peer' = [peer EXCEPT !.pc = "streaming"]
           ELSE peer' = [peer EXCEPT !.buffer = DropFirst(PeerBuffer, p.consumed),
                                     !.base = peer.base + p.consumed,
                                     !.yielded = IF p.text # <<>>
                                                 THEN Append(peer.yielded, p.text)
                                                 ELSE peer.yielded]
    /\ UNCHANGED peerFrame
    /\ UNCHANGED decoderVars
    /\ UNCHANGED pureVars
    /\ UNCHANGED inputVars
    /\ UNCHANGED sseVars
    /\ UNCHANGED requestVars

\* The second exchange: aiter_bytes() is exhausted
PeerEnd ==
    /\ peer.pc = "streaming"
    /\ peer.pending = <<>>
    /\ peer' = [peer EXCEPT !.pc = "done"]
    /\ UNCHANGED peerFrame
    /\ UNCHANGED decoderVars
    /\ UNCHANGED pureVars
    /\ UNCHANGED inputVars
    /\ UNCHANGED sseVars
    /\ UNCHANGED requestVars

NextPair ==
    \/ ReceiveChunk
    \/ ParseStep
    \/ Resume
    \/ EndOfStream
    \/ PeerReceive
    \/ PeerParse
    \/ PeerEnd

SpecPair == InitPair /\ [][NextPair]_vars

\* C13: with the chunks of two exchanges arriving interleaved in any order, each
\* exchange, once its parse loop has stopped, has yielded the texts it yields
\* alone on the bytes it received, and the buffer of each holds bytes of its own
\* response only: the bytes it received and has not consumed.
ExchangeIsolation ==
    /\ pc \in {"streaming", "done"} => yielded = Drain(received).texts
    /\ peer.pc \in {"streaming", "done"} => peer.yielded = Drain(peer.received).texts
    /\ buffer = DropFirst(received, base)
    /\ peer.buffer = DropFirst(peer.received, peer.base)

\* C13 witness: both exchanges in mid-stream, each with a text yielded, bytes
\* buffered and bytes still to come, the first suspended at its yield while the
\* second parses.
IsolationWitness ==
    /\ pc = "yield"
    /\ peer.pc = "parsing"
    /\ yielded = << <<65>> >>
    /\ peer.yielded = << <<66>> >>
    /\ buffer # <<>> /\ peer.buffer # <<>>
    /\ pending # <<>> /\ peer.pending # <<>>

\* ----------------------------------------- the steps of the scan (C15, C16)

\* The step taken is a halt of the parse loop: nothing consumed, nothing yielded,
\* no error, the loop left to wait for the next chunk.
HaltsUnchanged ==
    /\ pc' = "streaming"
    /\ buffer' = buffer
    /\ base' = base
    /\ yielded' = yielded
    /\ error' = error

\* C15 as stated: the parse step halts, consuming and yielding nothing, whenever
\* the buffer holds no marker or fewer than 7 bytes after its first marker.
HaltsUnderSevenAfterMarker ==
    [][(pc = "parsing"
           /\ (Find(buffer, delimiter) = -1
                  \/ Len(buffer) - (Find(buffer, delimiter) + 4) < 7))
       => HaltsUnchanged]_vars

\* C15 amended: the parse step halts, consuming and yielding nothing, whenever the
\* buffer holds no marker or fewer than 7 bytes from the first byte of its first
\* marker on, that is fewer than 3 header bytes after the 4-byte marker.
HaltsWithoutHeader ==
    [][(pc = "parsing"
           /\ (Find(buffer, delimiter) = -1 \/ Len(buffer) < Find(buffer, delimiter) + 7))
       => HaltsUnchanged]_vars

\* C15 witness: the loop has halted on a marker followed by two of its three
\* header bytes, which stay in the buffer while more bytes are to come.
HaltWitness ==
    /\ pc = "streaming"
    /\ nchunks >= 1
    /\ pending # <<>>
    /\ HaltReason(buffer) = "short_header"
    /\ Len(buffer) = Find(buffer, delimiter) + 6
    /\ buffer = DropFirst(received, base)

\* C16: when the first marker has its three header bytes and they fail a check,
\* the parse step cuts exactly the bytes up to and with the marker's first byte
\* from the buffer, yields nothing, raises nothing, and the loop scans again.
FalsePositiveStep ==
    [][(pc = "parsing"
           /\ Find(buffer, delimiter) # -1
           /\ Len(buffer) >= Find(buffer, delimiter) + 7
           /\ ~HeaderOk(buffer, Find(buffer, delimiter)))
       => /\ buffer' = DropFirst(buffer, Find(buffer, delimiter) + 1)
          /\ base' = base + Find(buffer, delimiter) + 1
          /\ yielded' = yielded
          /\ error' = error
          /\ pc' = "parsing"]_vars

\* C16 witness: of a run of five zero bytes followed by 42 0A, then the frame of
\* "A", all arrived in one chunk, the step has cut the first zero byte only.
FalsePositiveWitness ==
    /\ pc = "parsing"
    /\ nchunks = 1
    /\ received = <<0, 0, 0, 0, 0, 66, 10>> \o Frame(<<65>>)
    /\ base = 1
    /\ buffer = DropFirst(received, 1)
    /\ yielded = <<>>
    /\ error = NoError

\* ------------------------------- a frame cut inside its payload (C17, C18)

\* Bytes before the frame: none, or a letter.
PartialPrefixes == {<<>>, <<66>>}

\* Frames of one, two and three payload bytes: "A", U+00E9, "ABC".
PartialFrames == {Frame(<<65>>), Frame(<<195, 169>>), Frame(<<65, 66, 67>>)}

\* What the upstream sends after the frame before it ends the stream: nothing,
\* half a marker, a marker with two header bytes, a frame short of one payload
\* byte, two letters, or the frame of "B".
Tails ==
    {<<>>, <<0, 0>>, <<0, 0, 0, 0, 3, 10>>, <<0, 0, 0, 0, 4, 10, 2, 65>>, <<66, 67>>,
     Frame(<<66>>)}

\* The exchange after its first chunk: the chunk ends inside the frame's payload,
\* at or after the last header byte, and the parse loop is about to run on it.
InitPartial ==
    \E pre \in PartialPrefixes, f \in PartialFrames, t \in Tails :
        \E k \in (Len(pre) + 7)..(Len(pre) + Len(f) - 1) :
            /\ pc = "parsing"
            /\ mode = "stream"
            /\ cursor_token = <<"t">>
            /\ token = <<"t">>
            /\ posts = 1
            /\ status = 200
            /\ error_body = <<>>
            /\ pending = DropFirst(pre \o f \o t, k)
            /\ shape = Len(pre)
            /\ received = Slice(pre \o f \o t, 0, k)
            /\ nchunks = 1
            /\ buffer = Slice(pre \o f \o t, 0, k)
            /\ base = 0
            /\ fragment = <<>>
            /\ yielded = <<>>
            /\ log = <<>>
            /\ full_response = <<>>
            /\ result = NotReturned
            /\ error = NoError
            /\ value = 0
            /\ encoded = <<>>
            /\ NoEncoderCall
            /\ DefaultRequest
            /\ LET r == BuildRequest(OneUserMessage, DefaultModel, <<>>, DefaultIds)
               IN  /\ cursor_messages = r.cursor_messages
                   /\ proto_data = r.proto_data
                   /\ envelope = r.envelope
            /\ conn = "open"
            /\ peer = NoPeer
            /\ NoGenerator

NextPartial ==
    \/ ReceiveChunk
    \/ ParseStep
    \/ Resume
    \/ EndOfStream

SpecPartial == InitPartial /\ [][NextPartial]_vars

\* The first marker of buf has a header that passes the checks and fewer payload
\* bytes after it than the header announces.
IncompleteFirst(buf) ==
    LET idx == Find(buf, delimiter)
    IN  /\ idx # -1
        /\ Len(buf) >= idx + 7
        /\ HeaderOk(buf, idx)
        /\ Len(buf) < idx + 7 + At(buf, idx + 6)

\* Where the frame that starts at offset `shape` of the response ends.
FrameEnd == shape + 7 + At(received, shape + 6)

TailReceived == DropFirst(received, FrameEnd)

\* C18: at the end of the stream the exchange ends normally whatever the buffer
\* holds: the step yields nothing and raises nothing, the texts yielded are those
\* of the complete frames only, the bytes left are those of the incomplete tail,
\* and nothing happens afterwards.
EndOfStreamDiscards ==
    /\ [][(pc = "streaming" /\ pending = <<>>) =>
              (pc' = "done" /\ yielded' = yielded /\ error' = error /\ buffer' = buffer)]_vars
    /\ [][pc # "done"]_vars
    /\ [](pc = "done" =>
              /\ error = NoError
              /\ Len(yielded) = (IF TailReceived = Frame(<<66>>) THEN 2 ELSE 1)
              /\ TailReceived = Frame(<<66>>) => (yielded[2] = <<66>> /\ buffer = <<>>)
              /\ TailReceived # Frame(<<66>>) => buffer = TailReceived)

\* C18 witness: the stream ended with a frame short of one payload byte in the
\* buffer; the exchange is done with the one text of the frame before it.
EndOfStreamWitness ==
    /\ pc = "done"
    /\ buffer = <<0, 0, 0, 0, 4, 10, 2, 65>>
    /\ yielded = << <<233>> >>
    /\ error = NoError
    /\ conn = "closed"

\* --------------------------------------------- one call, no retry (C19)

\* C19: an exchange issues at most one POST and opens at most one connection,
\* whichever way it ends; a connection once closed stays closed, and after a
\* failure the exchange takes no further step.
OneCallNoRetry ==
    /\ [](/\ posts <= 1
          /\ conn # "none" => posts = 1
          /\ pc \in {"posted", "streaming", "parsing", "yield", "done"} => posts = 1)
    /\ [][/\ posts' >= posts
          /\ conn # "none" => conn' # "none"
          /\ conn = "closed" => conn' = "closed"]_vars
    /\ [][pc # "failed"]_vars

\* C19 witness: the connection dropped after a text was yielded; the exchange
\* has failed with its one POST and its connection closed.
NoRetryWitness ==
    /\ pc = "failed"
    /\ error.kind = "httpx.TransportError"
    /\ yielded # <<>>
    /\ pending # <<>>
    /\ posts = 1
    /\ conn = "closed"

\* ------------------------------------------------------ cancellation (C20)

CancelWires ==
    {Frame(<<65>>) \o Frame(<<195, 169>>), <<0>> \o Frame(<<255>>) \o Frame(<<65>>)}

InitCancel == \E w \in CancelWires : Streaming(w, 0)

\* The task that consumes the stream is cancelled while the generator awaits the
\* next chunk: CancelledError is raised at the await and leaves the generator
\* through both async with blocks.
Cancel ==
    /\ pc = "streaming"
    /\ error' = [kind |-> "CancelledError", status |-> 0, body |-> <<>>]
    /\ conn' = aexit(conn)
    /\ pc' = "cancelled"
    /\ UNCHANGED <<mode, cursor_token, token, posts, status, error_body,
                   full_response, result>>
    /\ UNCHANGED decoderVars
    /\ UNCHANGED pureVars
    /\ UNCHANGED inputVars
    /\ UNCHANGED sseVars
    /\ UNCHANGED requestVars
    /\ UNCHANGED peer

\* The consumer of a streamed exchange takes no further text: the generator
\* stays suspended at yield text.
Abandon ==
    /\ pc = "yield"
    /\ mode = "stream"
    /\ pc' = "abandoned"
    /\ UNCHANGED <<mode, cursor_token, token, posts, status, error_body,
                   full_response, result, error>>
    /\ UNCHANGED decoderVars
    /\ UNCHANGED pureVars
    /\ UNCHANGED inputVars
    /\ UNCHANGED sseVars
    /\ UNCHANGED requestVars
    /\ UNCHANGED <<conn, peer>>

\* aclose() of the suspended generator, by its consumer or by the event loop's
\* finalizer once the generator is unreachable: GeneratorExit is raised at the
\* yield and leaves through both async with blocks.
Finalize ==
    /\ pc = "abandoned"
    /\ conn' = aexit(conn)
    /\ pc' = "cancelled"
    /\ UNCHANGED <<mode, cursor_token, token, posts, status, error_body,
                   full_response, result, error>>
    /\ UNCHANGED decoderVars
    /\ UNCHANGED pureVars
    /\ UNCHANGED inputVars
    /\ UNCHANGED sseVars
    /\ UNCHANGED requestVars
    /\ UNCHANGED peer

NextCancel ==
    \/ ReceiveChunk
    \/ ParseStep
    \/ Resume
    \/ EndOfStream
    \/ StreamFailure
    \/ Cancel
    \/ Abandon
    \/ Finalize

\* The event loop runs the finalizer of a generator it no longer reaches.
SpecCancel == InitCancel /\ [][NextCancel]_vars /\ WF_vars(Finalize)

\* C20: once the consumer has stopped, no further text is yielded and no decode
\* error is raised, and the connection gets closed: at once when the stop is a
\* cancellation at the await, and by the generator's finalizer when it is
\* suspended at a yield; the connection is closed too when the exchange is done
\* or has failed.
CancellationCloses ==
    /\ [](pc \in {"cancelled", "done", "failed"} => conn = "closed")
    /\ [](pc \in {"cancelled", "abandoned"} => error.kind # "UnicodeDecodeError")
    /\ [][(pc \in {"cancelled", "abandoned"}) =>
              (yielded' = yielded /\ pc' \in {"cancelled", "abandoned"})]_vars
    /\ (pc = "abandoned" ~> conn = "closed")

\* C20 witness: the consumer stopped after the first text with a frame still to
\* come; the generator was finalized and the connection is closed.
CancellationWitness ==
    /\ pc = "cancelled"
    /\ error = NoError
    /\ yielded = << <<65>> >>
    /\ pending # <<>>
    /\ conn = "closed"

\* ------------------------------------ the parse loop on one buffer (C22)

\* The longest response, in pieces.
MaxPieces == 3

\* What the buffer of one loop is made of: a zero byte, a letter, a marker whose
\* header fails b1 - 2 == b3, the frames of "A", of no payload and of a payload
\* that is not UTF-8, a frame short of a payload byte, and a marker with two
\* header bytes.
LoopPieces ==
    { <<0>>, <<66>>, <<0, 0, 0, 0, 5, 10, 1>>, Frame(<<65>>), Frame(<<>>), Frame(<<255>>),
      <<0, 0, 0, 0, 4, 10, 2, 65>>, <<0, 0, 0, 0, 3, 10>> }

RECURSIVE LoopWires(_)
\* The responses of at most n pieces.
LoopWires(n) ==
    IF n = 0 THEN {<<>>}
    ELSE LET shorter == LoopWires(n - 1)
         IN  shorter \cup {w \o g : w \in shorter, g \in LoopPieces}

InitLoop == \E w \in LoopWires(MaxPieces) : Streaming(w, 0)

NextLoop ==
    \/ ReceiveWhole
    \/ ParseStep
    \/ Resume
    \/ EndOfStream

SpecLoop == InitLoop /\ [][NextLoop]_vars

\* The first marker of buf, if any, cannot be settled on the bytes of buf: buf
\* has no marker, or not the three header bytes after it, or a header that
\* passes the checks and fewer payload bytes than it announces.
NeedsMoreInput(buf) ==
    LET i == Find(buf, delimiter)
    IN  \/ i = -1
        \/ Len(buf) < i + 7
        \/ HeaderOk(buf, i) /\ Len(buf) < i + 7 + At(buf, i + 6)

\* C22: a parse step returns consumed = 0 or 0 < consumed <= len(buffer); a turn
\* of the loop either leaves it with the buffer as it was, and then the frame at
\* the buffer's first marker cannot be validated or skipped without more input,
\* or makes the buffer strictly shorter by the bytes consumed, so that the loop
\* run on a buffer ends within len(buffer) + 1 turns; a yield in between leaves
\* the buffer alone.
LoopProgress ==
    /\ [](pc = "parsing" =>
             /\ parse_grpc_chunk(buffer).consumed >= 0
             /\ parse_grpc_chunk(buffer).consumed <= Len(buffer))
    /\ [](base + Len(buffer) = Len(received))
    /\ [][(pc = "parsing") =>
              \/ pc' = "streaming" /\ buffer' = buffer /\ NeedsMoreInput(buffer)
              \/ /\ pc' \in {"parsing", "yield"}
                 /\ Len(buffer') < Len(buffer)
                 /\ base' > base]_vars
    /\ [][(pc = "yield") => (pc' = "parsing" /\ buffer' = buffer)]_vars

\* C22 witness: the loop run on one chunk has skipped a zero byte, yielded "A",
\* and left on the frame that is short of a payload byte.
LoopWitness ==
    /\ pc = "streaming"
    /\ nchunks = 1
    /\ received = <<0>> \o Frame(<<65>>) \o <<0, 0, 0, 0, 4, 10, 2, 65>>
    /\ yielded = << <<65>> >>
    /\ buffer = <<0, 0, 0, 0, 4, 10, 2, 65>>
    /\ base = 9

\* ------------------------------------------- the texts yielded (C23)

\* Responses that open with the frame of no payload, followed by one frame of
\* every payload length 0..253 (letters, NUL characters, U+00E9, and "A" before
\* 126 times U+00E9 to fill 253 bytes with 127 characters); and the markers
\* whose third header byte announces 254 and 255 bytes, as many letters after them.
FragmentWires ==
    UNION {{Frame(<<>>) \o Frame(p) : p \in PayloadsOf(n)} : n \in 0..MaxPayloadLen}
        \cup {Frame(<<>>) \o Frame(<<65>> \o Rep(<<195, 169>>, (MaxPayloadLen - 1) \div 2))}
        \cup {delimiter \o <<(b + 2) % 256, 10, b>> \o Rep(<<65>>, b) :
                  b \in (MaxPayloadLen + 1)..255}

InitFragment == \E w \in FragmentWires : Streaming(w, 0)

NextFragment ==
    \/ ReceiveWhole
    \/ ParseStep
    \/ Resume
    \/ EndOfStream

SpecFragment == InitFragment /\ [][NextFragment]_vars

\* text is not empty and its UTF-8 encoding is 1..253 bytes long.
FragmentOk(text) ==
    /\ text # <<>>
    /\ Len(Utf8Encode(text)) >= 1
    /\ Len(Utf8Encode(text)) <= MaxPayloadLen

\* C23: every text yielded is non-empty and 1..253 bytes long in UTF-8; the parse
\* step on a buffer whose first marker carries the header 02 0A 00 consumes the
\* bytes up to 7 past the marker's start and yields nothing.
FragmentsBounded ==
    /\ [](\A i \in 1..Len(yielded) : FragmentOk(yielded[i]))
    /\ [](pc = "yield" => (FragmentOk(fragment) /\ fragment = yielded[Len(yielded)]))
    /\ [][(pc = "parsing"
              /\ Find(buffer, delimiter) # -1
              /\ Len(buffer) >= Find(buffer, delimiter) + 7
              /\ At(buffer, Find(buffer, delimiter) + 4) = 2
              /\ At(buffer, Find(buffer, delimiter) + 5) = 10
              /\ At(buffer, Find(buffer, delimiter) + 6) = 0)
          => /\ buffer' = DropFirst(buffer, Find(buffer, delimiter) + 7)
             /\ base' = base + Find(buffer, delimiter) + 7
             /\ yielded' = yielded
             /\ pc' = "parsing"]_vars

\* C23 witness: the frame of no payload was consumed without a text, and the
\* frame after it, of 253 letters, was yielded as one text of 253 bytes.
FragmentsWitness ==
    /\ pc = "done"
    /\ received = Frame(<<>>) \o Frame(Rep(<<65>>, MaxPayloadLen))
    /\ yielded = <<Rep(<<65>>, MaxPayloadLen)>>
    /\ Len(Utf8Encode(yielded[1])) = MaxPayloadLen
    /\ base = 7 + 7 + MaxPayloadLen

\* ----------------------------- the streaming endpoint's generator (C21)

\* What the upstream answers to a request served as a stream: nothing, the frame
\* of "A", of "A" and of U+00E9, of no payload and of "B", a zero byte before the
\* frame of "A", and a frame whose payload is not UTF-8.
SseWires ==
    { <<>>, Frame(<<65>>), Frame(<<65>>) \o Frame(<<195, 169>>), Frame(<<>>) \o Frame(<<66>>),
      <<0>> \o Frame(<<65>>), Frame(<<255>>) }

\* The exchange with its POST issued and no response yet.
Posted ==
    /\ pc = "posted"
    /\ mode = "stream"
    /\ cursor_token = <<"t">>
    /\ token = <<"t">>
    /\ posts = 1
    /\ status = 0
    /\ error_body = <<>>
    /\ pending = <<>>
    /\ shape = 0
    /\ received = <<>>
    /\ nchunks = 0
    /\ buffer = <<>>
    /\ base = 0
    /\ fragment = <<>>
    /\ yielded = <<>>
    /\ log = <<>>
    /\ full_response = <<>>
    /\ result = NotReturned
    /\ error = NoError
    /\ value = 0
    /\ encoded = <<>>
    /\ NoEncoderCall
    /\ DefaultRequest
    /\ LET r == BuildRequest(OneUserMessage, DefaultModel, <<>>, DefaultIds)
       IN  /\ cursor_messages = r.cursor_messages
           /\ proto_data = r.proto_data
           /\ envelope = r.envelope
    /\ conn = "none"

\* generate() has called cursor_client.chat_completion_stream and waits for its
\* first text: the response is still awaited, or its status 200 has come and its
\* bytes are about to arrive.
InitSse ==
    /\ \/ Posted
       \/ \E w \in SseWires : StreamingAlone(w, 0)
    /\ peer = NoPeer
    /\ events = <<>>
    /\ generate = "iterating"

\* yield {"data": ...}
Event(kind, data) == [event |-> kind, data |-> data]

\* The body of the async for: if chunk, a ChatCompletionStreamResponse with
\* delta {"content": chunk} and finish_reason None is yielded.
GenerateChunk ==
    /\ generate = "iterating"
    /\ pc = "yield"
    /\ IF fragment # <<>>
       THEN /\ events' = Append(events, Event("content", fragment))
            /\ generate' = "content_sent"
            /\ pc' = pc
       ELSE /\ generate' = "iterating"
            /\ pc' = "parsing"
            /\ UNCHANGED events
    /\ UNCHANGED <<mode, cursor_token, token, posts, status, error_body,
                   full_response, result, error>>
    /\ UNCHANGED decoderVars
    /\ UNCHANGED pureVars
    /\ UNCHANGED inputVars
    /\ UNCHANGED requestVars
    /\ UNCHANGED <<conn, peer>>

\* The response takes the event and asks for the next: generate() asks
\* chat_completion_stream for its next text.
GenerateNext ==
    /\ generate = "content_sent"
    /\ pc = "yield"
    /\ generate' = "iterating"
    /\ pc' = "parsing"
    /\ UNCHANGED events
    /\ UNCHANGED <<mode, cursor_token, token, posts, status, error_body,
                   full_response, result, error>>
    /\ UNCHANGED decoderVars
    /\ UNCHANGED pureVars
    /\ UNCHANGED inputVars
    /\ UNCHANGED requestVars
    /\ UNCHANGED <<conn, peer>>

\* The async for is exhausted: the final chunk, delta {} and finish_reason "stop".
GenerateFinal ==
    /\ generate = "iterating"
    /\ pc = "done"
    /\ events' = Append(events, Event("stop", <<>>))
    /\ generate' = "stop_sent"
    /\ UNCHANGED <<pc, mode, cursor_token, token, posts, status, error_body,
                   full_response, result, error>>
    /\ UNCHANGED decoderVars
    /\ UNCHANGED pureVars
    /\ UNCHANGED inputVars
    /\ UNCHANGED requestVars
    /\ UNCHANGED <<conn, peer>>

\* yield {"data": "[DONE]"} after the final chunk
GenerateDone ==
    /\ generate = "stop_sent"
    /\ events' = Append(events, Event("[DONE]", <<>>))
    /\ generate' = "done_sent"
    /\ UNCHANGED <<pc, mode, cursor_token, token, posts, status, error_body,
                   full_response, result, error>>
    /\ UNCHANGED decoderVars
    /\ UNCHANGED pureVars
    /\ UNCHANGED inputVars
    /\ UNCHANGED requestVars
    /\ UNCHANGED <<conn, peer>>

\* except Exception as e: the error event, its message str(e).
GenerateError ==
    /\ generate = "iterating"
    /\ pc = "failed"
    /\ events' = Append(events, Event("error", error))
    /\ generate' = "error_sent"
    /\ UNCHANGED <<pc, mode, cursor_token, token, posts, status, error_body,
                   full_response, result, error>>
    /\ UNCHANGED decoderVars
    /\ UNCHANGED pureVars
    /\ UNCHANGED inputVars
    /\ UNCHANGED requestVars
    /\ UNCHANGED <<conn, peer>>

\* The error event followed by the final chunk of the try block.
GenerateErrorThenFinal ==
    /\ generate = "error_sent"
    /\ events' = Append(events, Event("stop", <<>>))
    /\ generate' = "stop_sent"
    /\ UNCHANGED <<pc, mode, cursor_token, token, posts, status, error_body,
                   full_response, result, error>>
    /\ UNCHANGED decoderVars
    /\ UNCHANGED pureVars
    /\ UNCHANGED inputVars
    /\ UNCHANGED requestVars
    /\ UNCHANGED <<conn, peer>>

\* yield {"data": "[DONE]"} after the error event
GenerateErrorDone ==
    /\ generate = "error_sent"
    /\ events' = Append(events, Event("[DONE]", <<>>))
    /\ generate' = "done_sent"
    /\ UNCHANGED <<pc, mode, cursor_token, token, posts, status, error_body,
                   full_response, result, error>>
    /\ UNCHANGED decoderVars
    /\ UNCHANGED pureVars
    /\ UNCHANGED inputVars
    /\ UNCHANGED requestVars
    /\ UNCHANGED <<conn, peer>>

\* Asked for an event after [DONE], generate() returns.
GenerateReturn ==
    /\ generate = "done_sent"
    /\ generate' = "finished"
    /\ UNCHANGED events
    /\ UNCHANGED <<pc, mode, cursor_token, token, posts, status, error_body,
                   full_response, result, error>>
    /\ UNCHANGED decoderVars
    /\ UNCHANGED pureVars
    /\ UNCHANGED inputVars
    /\ UNCHANGED requestVars
    /\ UNCHANGED <<conn, peer>>

\* The client goes away and the response stops consuming: CancelledError at the
\* await generate() is suspended in, or GeneratorExit at its yield when it is
\* closed. except Exception catches neither, so generate() ends with no further
\* event, and chat_completion_stream is closed with it.
Disconnect ==
    /\ \/ generate = "iterating" /\ pc \in {"posted", "streaming"}
       \/ generate \in {"content_sent", "stop_sent", "error_sent", "done_sent"}
    /\ generate' = "cancelled"
    /\ pc' = IF pc \in {"done", "failed"} THEN pc ELSE "cancelled"
    /\ conn' = aexit(conn)
    /\ UNCHANGED events
    /\ UNCHANGED <<mode, cursor_token, token, posts, status, error_body,
                   full_response, result, error>>
    /\ UNCHANGED decoderVars
    /\ UNCHANGED pureVars
    /\ UNCHANGED inputVars
    /\ UNCHANGED requestVars
    /\ UNCHANGED peer

NextSse ==
    \/ ConnectFailure
    \/ ResponseNot200
    \/ ReceiveChunk
    \/ ParseStep
    \/ EndOfStream
    \/ StreamFailure
    \/ GenerateChunk
    \/ GenerateNext
    \/ GenerateFinal
    \/ GenerateDone
    \/ GenerateError
    \/ GenerateErrorDone
    \/ GenerateReturn
    \/ Disconnect

SpecSse == InitSse /\ [][NextSse]_vars

\* The events of the given kind, in order.
EventsOf(kind) == SelectSeq(events, LAMBDA e : e.event = kind)

\* The events end with one closing event of the given kind and [DONE], after
\* content events only, one per text yielded and in their order; no event of the
\* kind other is among them.
EndsWith(kind, other) ==
    /\ Len(events) = Len(yielded) + 2
    /\ \A i \in 1..Len(yielded) : events[i] = Event("content", yielded[i])
    /\ events[Len(events) - 1].event = kind
    /\ events[Len(events)].event = "[DONE]"
    /\ Len(EventsOf(kind)) = 1
    /\ Len(EventsOf("[DONE]")) = 1
    /\ EventsOf(other) = <<>>

\* How a run of generate() has ended: on success with the finish_reason "stop"
\* chunk and [DONE], on an exception of the exchange with the error event and
\* [DONE].
EndedProperly ==
    /\ pc \in {"done", "failed"}
    /\ pc = "done" => EndsWith("stop", "error")
    /\ pc = "failed" => EndsWith("error", "stop")

\* C21 as stated: every run of generate() ends with [DONE], emitted once, after
\* the one "stop" chunk on success, after the one error event and no "stop" chunk
\* when the exchange raised.
EveryRunEndsWithDone ==
    generate \in {"finished", "cancelled"} => EndedProperly

\* C21 amended: every run of generate() that its consumer lets run to its end
\* ends with [DONE], emitted once, after the one "stop" chunk on success, after
\* the one error event and no "stop" chunk when the exchange raised; a run the
\* consumer cancels ends where it is. In every run [DONE] is emitted at most
\* once and is the last event, at most one "stop" chunk or error event is
\* emitted, and the content chunks are the texts yielded, in their order.
RunToEndEndsWithDone ==
    /\ generate = "finished" => EndedProperly
    /\ Len(EventsOf("[DONE]")) <= 1
    /\ EventsOf("[DONE]") # <<>> => events[Len(events)].event = "[DONE]"
    /\ Len(EventsOf("stop")) + Len(EventsOf("error")) <= 1
    /\ Len(EventsOf("content")) <= Len(yielded)
    /\ \A i \in 1..Len(EventsOf("content")) : events[i] = Event("content", yielded[i])

\* C21 witness: the exchange raised after its first text; generate() yielded the
\* content chunk, the error event and [DONE], and returned.
SseWitness ==
    /\ generate = "finished"
    /\ pc = "failed"
    /\ yielded = << <<65>> >>
    /\ Len(events) = 3
    /\ events[1] = Event("content", <<65>>)
    /\ events[2] = Event("error", error)
    /\ events[3].event = "[DONE]"

====
